---- MODULE Spec2Model ----
(***************************************************************************)
(* A model of the fan-out engine of multifdsink (gst/tcp/gstmultifdsink.c):*)
(* the global buffer queue, the client table, the producer's render path,  *)
(* the I/O thread's service pass and the removal procedure with its two    *)
(* unlocked windows.                                                       *)
(*                                                                         *)
(* Queue indices follow the C code: index 0 is the newest buffer.  The     *)
(* TLA+ sequence bufqueue holds index i of the C array at position i + 1.  *)
(***************************************************************************)
EXTENDS Integers, Sequences, FiniteSets, TLC

(***************************************************************************)
(* Bounds of the model.                                                    *)
(***************************************************************************)
MaxRender == 2
MaxAdds == 2
MaxTime == 3
FairAdds == 1
WalkAdds == 3
WalkRenders == 1
SoloRenders == 3
HdrRenders == 2
LimitRenders == 3
MaxProbeLen == 7
MaxProbeSoft == 5
MaxAvail == 2
MaxReads == 4
FlushRenders == 2
MaxCalls == 2
StatsRenders == 2
TrimRenders == 5
FloorRenders == 4
PollRenders == 3
RefRenders == 3
MaxHeaders == 1
NextRenders == 3
BurstRenders == 4
KeepRenders == 4
MaxBurstLen == 4
RunRenders == 2
MaxRun == 2
IdleRenders == 2
OwnRenders == 2
OwnAdds == 2
SyncRenders == 3
MaxFloor == 3
MaxBurst == 2
BumpRenders == 1
BumpAdds == 3
StopRenders == 1
StopAdds == 1
OnceRenders == 2
OnceAdds == 2
WakeRenders == 2
WakeAdds == 2
WriteRenders == 2
MaxWrote == 2
MaxAxisLen == 3
CookieRenders == 1
CookieAdds == 2

(***************************************************************************)
(* Program values.                                                         *)
(***************************************************************************)
NONE == -1
ClockWrap == 1073741824

Fds == {1, 2, 3}
NoFd == 0
Dangling == -2

Threads == {"prod", "io", "host"}

StatusSet == {"OK", "Closed", "Removed", "Slow", "Error", "Flushing", "Duplicate"}
SyncSet == {"Latest", "NextKeyframe", "LatestKeyframe", "Burst", "BurstKeyframe",
            "BurstWithKeyframe"}
UnitSet == {"Undefined", "Buffers", "Bytes", "Time"}
PolicySet == {"None", "ResyncLatest", "ResyncSoftLimit", "ResyncKeyframe"}

MinOf(a, b) == IF a < b THEN a ELSE b
MaxOf(a, b) == IF a > b THEN a ELSE b

(***************************************************************************)
(* Buffers.  A data buffer carries the order number of its render (id), the*)
(* delta flag, its size in bytes and its timestamp (NONE when absent).  A  *)
(* stream-header buffer taken from the caps carries kind "hdr".            *)
(***************************************************************************)
DataBuf(id, delta, size, ts) ==
    [kind |-> "data", id |-> id, delta |-> delta, size |-> size, ts |-> ts]
HdrBuf(sh, k) ==
    [kind |-> "hdr", id |-> sh * 10 + k, delta |-> FALSE, size |-> 1, ts |-> NONE]
\* What a read past the end of the array can yield: no buffer of the stream.
GarbageBuf(delta) ==
    [kind |-> "garbage", id |-> 0, delta |-> delta, size |-> 1, ts |-> NONE]

\* g_array_index (bufqueue, GstBuffer *, i)
At(q, i) == q[i + 1]

\* A test that takes every buffer for a keyframe.
is_sync_frame_any(buf) == TRUE

\* is_sync_frame: a buffer that is not a delta unit
is_sync_frame(buf) == ~buf.delta

\* find_syncframe, direction +1: from idx towards the older buffers
RECURSIVE find_next_syncframe(_, _)
find_next_syncframe(q, idx) ==
    IF idx < 0 \/ idx >= Len(q) THEN -1
    ELSE IF is_sync_frame(At(q, idx)) THEN idx
    ELSE find_next_syncframe(q, idx + 1)

\* find_syncframe, direction -1: from idx towards the newer buffers
RECURSIVE find_prev_syncframe(_, _)
find_prev_syncframe(q, idx) ==
    IF idx < 0 \/ idx >= Len(q) THEN -1
    ELSE IF is_sync_frame(At(q, idx)) THEN idx
    ELSE find_prev_syncframe(q, idx - 1)

(***************************************************************************)
(* get_buffers_max: the number of buffers needed to exceed max in the      *)
(* configured unit.                                                        *)
(***************************************************************************)
RECURSIVE BytesMaxLoop(_, _, _, _)
BytesMaxLoop(q, i, acc, max) ==
    IF i >= Len(q) THEN Len(q) + 1
    ELSE IF acc + At(q, i).size > max THEN i + 1
    ELSE BytesMaxLoop(q, i + 1, acc + At(q, i).size, max)

RECURSIVE TimeMaxLoop(_, _, _, _)
TimeMaxLoop(q, i, first, max) ==
    IF i >= Len(q) THEN Len(q) + 1
    ELSE IF At(q, i).ts # NONE
         THEN LET f == IF first = NONE THEN At(q, i).ts ELSE first
              IN IF f - At(q, i).ts > max THEN i + 1
                 ELSE TimeMaxLoop(q, i + 1, f, max)
         ELSE TimeMaxLoop(q, i + 1, first, max)

get_buffers_max(q, unit, max) ==
    CASE unit = "Buffers" -> max
      [] unit = "Time" -> TimeMaxLoop(q, 0, NONE, max)
      [] unit = "Bytes" -> BytesMaxLoop(q, 0, 0, max)
      [] OTHER -> max

(***************************************************************************)
(* find_limits.  The do-while loop is FLLoop; st carries the locals.       *)
(***************************************************************************)
RECURSIVE FLLoop(_, _, _)
FLLoop(q, i, st) ==
    LET min1 == IF st.bytes_min = -1 /\ st.time_min = -1 /\ st.min_idx = -1
                THEN MaxOf(i - 1, 0) ELSE st.min_idx
    IN IF st.max_hit
       THEN [st EXCEPT !.min_idx = min1, !.max_idx = i - 1, !.result = (min1 # -1)]
       ELSE
         LET buf == At(q, i)
             bytes == st.bytes + buf.size
             hasts == buf.ts # NONE
             first == IF hasts /\ st.first = NONE THEN buf.ts ELSE st.first
             tmin == IF hasts /\ st.time_min # -1 /\ first - buf.ts >= st.time_min
                     THEN -1 ELSE st.time_min
             hit1 == hasts /\ st.time_max # -1 /\ first - buf.ts >= st.time_max
             bmin == IF st.bytes_min # -1 /\ bytes >= st.bytes_min
                     THEN -1 ELSE st.bytes_min
             hit2 == st.bytes_max # -1 /\ bytes >= st.bytes_max
             st2 == [st EXCEPT !.min_idx = min1, !.bytes = bytes, !.first = first,
                               !.time_min = tmin, !.bytes_min = bmin,
                               !.max_hit = (hit1 \/ hit2)]
         IN IF i + 1 < Len(q) THEN FLLoop(q, i + 1, st2) ELSE st2

\* the exit of find_limits: what the loop left open defaults to the queue's end
find_limits_end(q, st) ==
    [min_idx |-> IF st.min_idx # -1 THEN st.min_idx
                 ELSE IF st.max_idx = -1 THEN Len(q) - 1 ELSE st.max_idx,
     max_idx |-> IF st.max_idx = -1 THEN Len(q) - 1 ELSE st.max_idx,
     result |-> st.result]

\* A find_limits whose minimum index is at least the buffers minimum.
find_limits_counted(q, bytes_min, buffers_min, time_min, bytes_max, buffers_max, time_max) ==
    IF buffers_min # -1 /\ Len(q) < buffers_min
    THEN [min_idx |-> Len(q) - 1, max_idx |-> Len(q) - 1, result |-> FALSE]
    ELSE LET lim == find_limits_end(q,
                      FLLoop(q, 0, [min_idx |-> -1, max_idx |-> -1, result |-> FALSE,
                                    bytes |-> 0, first |-> NONE, max_hit |-> FALSE,
                                    bytes_min |-> bytes_min, time_min |-> time_min,
                                    bytes_max |-> bytes_max, time_max |-> time_max]))
         IN [lim EXCEPT !.min_idx = MaxOf(@, buffers_min - 1)]

find_limits(q, bytes_min, buffers_min, time_min, bytes_max, buffers_max, time_max) ==
    IF buffers_min # -1 /\ Len(q) < buffers_min
    THEN [min_idx |-> Len(q) - 1, max_idx |-> Len(q) - 1, result |-> FALSE]
    ELSE find_limits_end(q,
             FLLoop(q, 0, [min_idx |-> -1, max_idx |-> -1, result |-> FALSE,
                           bytes |-> 0, first |-> NONE, max_hit |-> FALSE,
                           bytes_min |-> bytes_min, time_min |-> time_min,
                           bytes_max |-> bytes_max, time_max |-> time_max]))

\* assign_value: the limit of the given unit, the others stay -1
assign_value(unit, value, which) == IF unit = which THEN value ELSE -1

count_burst_unit(q, min_unit, min_value, max_unit, max_value) ==
    find_limits(q,
        assign_value(min_unit, min_value, "Bytes"),
        assign_value(min_unit, min_value, "Buffers"),
        assign_value(min_unit, min_value, "Time"),
        assign_value(max_unit, max_value, "Bytes"),
        assign_value(max_unit, max_value, "Buffers"),
        assign_value(max_unit, max_value, "Time"))

(***************************************************************************)
(* gst_multi_fd_sink_new_client: where a new client starts in the queue.   *)
(* Yields the result and the client with the fields the function changes.  *)
(***************************************************************************)
\* A burst start that ignores the maximum.
BurstStartMin(lim) == lim.min_idx

\* the burst start: the minimum, capped by the maximum
BurstStart(lim) ==
    IF lim.max_idx # -1 /\ lim.max_idx <= lim.min_idx
    THEN MaxOf(lim.max_idx - 1, 0) ELSE lim.min_idx

\* the switch on the sync method; lim are the burst limits, nxt and prv the
\* keyframes found from the burst minimum in either direction
new_client_switch(q, c, lim, nxt, prv) ==
    CASE c.sync_method = "Latest" -> [result |-> c.bufpos, client |-> c]
      [] c.sync_method = "NextKeyframe" ->
           IF find_prev_syncframe(q, c.bufpos) # -1
           THEN [result |-> find_prev_syncframe(q, c.bufpos), client |-> c]
           ELSE [result |-> -1, client |-> [c EXCEPT !.bufpos = -1]]
      [] c.sync_method = "LatestKeyframe" ->
           IF find_next_syncframe(q, 0) # -1
           THEN [result |-> find_next_syncframe(q, 0), client |-> c]
           ELSE [result |-> -1,
                 client |-> [c EXCEPT !.bufpos = -1, !.sync_method = "NextKeyframe"]]
      [] c.sync_method = "Burst" -> [result |-> BurstStart(lim), client |-> c]
      [] c.sync_method = "BurstKeyframe" ->
           IF nxt # -1 /\ nxt < lim.max_idx THEN [result |-> nxt, client |-> c]
           ELSE IF prv # -1 THEN [result |-> prv, client |-> c]
           ELSE [result |-> -1,
                 client |-> [c EXCEPT !.bufpos = -1, !.sync_method = "NextKeyframe"]]
      [] c.sync_method = "BurstWithKeyframe" ->
           IF nxt # -1 /\ nxt < lim.max_idx THEN [result |-> nxt, client |-> c]
           ELSE [result |-> BurstStart(lim), client |-> c]
      [] OTHER -> [result |-> c.bufpos, client |-> c]

\* A search that takes the burst minimum itself for a keyframe.
new_client_limits_min(q, c, lim) ==
    new_client_switch(q, c, lim, lim.min_idx, lim.min_idx)

new_client_limits(q, c, lim) ==
    new_client_switch(q, c, lim, find_next_syncframe(q, lim.min_idx),
                      find_prev_syncframe(q, lim.min_idx))

new_client(q, c) ==
    new_client_limits(q, c, count_burst_unit(q, c.burst_min_unit, c.burst_min_value,
                                             c.burst_max_unit, c.burst_max_value))

(***************************************************************************)
(* gst_multi_fd_sink_recover_client: the position after recovery.          *)
(***************************************************************************)
RECURSIVE KeyframeScan(_, _)
KeyframeScan(q, pos) ==
    IF pos < 0 THEN pos
    ELSE IF is_sync_frame(At(q, pos)) THEN pos
    ELSE KeyframeScan(q, pos - 1)

\* A recovery that falls back to the soft limit when the scan finds no keyframe.
recover_client_softfall(q, bufpos, policy, unit, soft_max) ==
    LET softpos == get_buffers_max(q, unit, soft_max)
        scan == KeyframeScan(q, MinOf(Len(q) - 1, softpos - 1))
    IN CASE policy = "None" -> bufpos
         [] policy = "ResyncLatest" -> -1
         [] policy = "ResyncSoftLimit" -> softpos
         [] policy = "ResyncKeyframe" -> IF scan = -1 THEN softpos ELSE scan
         [] OTHER -> softpos

\* A recovery that never repositions.
recover_client_keep(q, bufpos, policy, unit, soft_max) == bufpos

recover_client(q, bufpos, policy, unit, soft_max) ==
    CASE policy = "None" -> bufpos
      [] policy = "ResyncLatest" -> -1
      [] policy = "ResyncSoftLimit" -> get_buffers_max(q, unit, soft_max)
      [] policy = "ResyncKeyframe" ->
           KeyframeScan(q, MinOf(Len(q) - 1, get_buffers_max(q, unit, soft_max) - 1))
      [] OTHER -> get_buffers_max(q, unit, soft_max)

(***************************************************************************)
(* Caps.  cid names the caps value, sh its streamheader field (0: the caps *)
(* carry no streamheader field).  A streamheader field holds two buffers.  *)
(***************************************************************************)
NoCaps == [cid |-> 0, sh |-> 0]
CapsSet == {[cid |-> 1, sh |-> 0], [cid |-> 2, sh |-> 1],
            [cid |-> 3, sh |-> 1], [cid |-> 4, sh |-> 2]}
ShArray(sh) == <<HdrBuf(sh, 1), HdrBuf(sh, 2)>>

(***************************************************************************)
(* The state.                                                              *)
(***************************************************************************)
VARIABLES
    cfg,            \* the element's properties
    env,            \* what the host, the producer and the peers may do
    bufqueue,       \* mhsink->bufqueue, newest first
    rendered,       \* the data buffers rendered so far, oldest first
    streamheader,   \* mhsink->streamheader
    previous_buffer_in_caps,
    caps,           \* the pad's current caps
    clients,        \* the client structure of each registered descriptor
    list,           \* mhsink->clients, head first
    hash,           \* sink->fd_hash (its keys)
    poll,           \* sink->fdset: membership, read and write interest
    clients_cookie,
    now,            \* the wall clock
    lock,           \* holder of the clients lock
    th,             \* per thread: position and locals
    ninst,          \* client structures created so far
    sig,            \* per client structure: the notifications emitted for it
    pulled,         \* per descriptor: ids of the buffers taken from the queue
    wire,           \* per descriptor: the bytes written to the peer
    stall,          \* per descriptor: prepends since the write handler last moved it
    refs,           \* per buffer: gst_buffer_ref calls of the sink minus its unrefs
    fdopen,         \* the descriptors that are open in the process
    run,            \* mhsink->running, the poll set's flushing flag, the stop's progress
    probe           \* input and output of a function applied on its own

vars == <<cfg, env, bufqueue, rendered, streamheader, previous_buffer_in_caps,
          caps, clients, list, hash, poll, clients_cookie, now, lock, th, ninst,
          sig, pulled, wire, stall, refs, fdopen, run, probe>>

NoClient == [status |-> "None"]
NoPoll == [in |-> FALSE, r |-> FALSE, w |-> FALSE]
NoSig == [fd |-> NoFd, added |-> 0, removed |-> 0, fdrem |-> 0, status |-> "None",
          at |-> 0]
NoProbe == [op |-> "none"]

\* The reference counts: gst_buffer_ref adds one for a buffer, gst_buffer_unref
\* takes one away.  They are kept where "refs" is observed.
NoRefs == [b \in {} |-> 0]

RefOne(r, b) ==
    [x \in DOMAIN r \cup {b} |->
        (IF x \in DOMAIN r THEN r[x] ELSE 0) + (IF x = b THEN 1 ELSE 0)]

UnrefOne(r, b) ==
    [x \in DOMAIN r \cup {b} |->
        (IF x \in DOMAIN r THEN r[x] ELSE 0) - (IF x = b THEN 1 ELSE 0)]

RECURSIVE RefAll(_, _)
RefAll(r, l) == IF l = <<>> THEN r ELSE RefAll(RefOne(r, Head(l)), Tail(l))

RECURSIVE UnrefAll(_, _)
UnrefAll(r, l) == IF l = <<>> THEN r ELSE UnrefAll(UnrefOne(r, Head(l)), Tail(l))

Registered(f) == f \in hash

\* What remove_flush found when it was called: the length of the client's wire
\* history, its sending list and offset, and the queue from index 0 to bufpos.
NoFlush == [k |-> 0, sending |-> <<>>, off |-> 0, q |-> <<>>]

\* gst_multi_handle_sink_client_init and the fields add_full sets
client_init(f, kind, t, inst) ==
    [status |-> "OK", fd |-> f, sync_method |-> kind.sync,
     burst_min_unit |-> kind.min_unit, burst_min_value |-> kind.min_value,
     burst_max_unit |-> kind.max_unit, burst_max_value |-> kind.max_value,
     bufpos |-> -1, bufoffset |-> 0, sending |-> <<>>, flushcount |-> -1,
     new_connection |-> TRUE, currently_removing |-> FALSE, caps |-> NoCaps,
     last_activity_time |-> t, connect_time |-> t, disconnect_time |-> 0,
     bytes_sent |-> 0, dropped_buffers |-> 0, first_buffer_ts |-> NONE,
     last_buffer_ts |-> NONE, inst |-> inst,
     flush |-> NoFlush]

\* The element after start: the I/O thread runs, nobody asked it to stop.
Running == [running |-> TRUE, flushing |-> FALSE, stop |-> "no"]

IdleThread(pc) ==
    [pc |-> pc, cookie |-> 0, cur |-> NoFd, rmfd |-> NoFd, ret |-> "none",
     rminst |-> 0, usage |-> 0, tnow |-> 0, canw |-> {},
     wfd |-> NoFd, flushing |-> FALSE, avail |-> 0, avail0 |-> 0, reads |-> 0,
     bumps |-> <<>>]

InitState(c, e) ==
    /\ cfg = c
    /\ env = e
    /\ bufqueue = <<>>
    /\ rendered = <<>>
    /\ streamheader = <<>>
    /\ previous_buffer_in_caps = FALSE
    /\ caps \in e.caps
    /\ clients = [f \in Fds |-> NoClient]
    /\ list = <<>>
    /\ hash = {}
    /\ poll = [f \in Fds |-> NoPoll]
    /\ clients_cookie = 0
    /\ now = 1
    /\ lock = "free"
    /\ th = [t \in Threads |-> IdleThread(IF t = "io" THEN "wait" ELSE "idle")]
    /\ ninst = 0
    /\ sig = [i \in 1..e.adds |-> NoSig]
    /\ pulled = [f \in Fds |-> <<>>]
    /\ wire = [f \in Fds |-> <<>>]
    /\ stall = [f \in Fds |-> 0]
    /\ refs = NoRefs
    /\ fdopen = Fds
    /\ run = Running

InitWith(c, e) == InitState(c, e) /\ probe = NoProbe

(***************************************************************************)
(* The client list.                                                        *)
(***************************************************************************)
Head0(l) == IF l = <<>> THEN NoFd ELSE l[1]

\* g_list_next of the link of descriptor f
NextOf(l, f) ==
    LET i == CHOOSE k \in 1..Len(l) : l[k] = f
    IN IF i < Len(l) THEN l[i + 1] ELSE NoFd

InList(l, f) == \E k \in 1..Len(l) : l[k] = f

\* g_list_remove
ListRemove(l, f) == SelectSeq(l, LAMBDA x : x # f)

(***************************************************************************)
(* The removal procedure, gst_multi_fd_sink_remove_client_link.            *)
(*                                                                         *)
(* RemClient/RemPoll are its first part, run under the lock by the caller's*)
(* action: they end with the lock released and the thread at "rm1".        *)
(* RemUnlink emits client-removed, takes the lock again, unlinks and frees *)
(* the client and releases the lock (thread at "rm2").  RemFinish emits    *)
(* client-fd-removed and takes the lock for the caller.                    *)
(***************************************************************************)
\* A first part that neither stamps the disconnect time nor frees the list.
RemClientLate(c) == [c EXCEPT !.currently_removing = TRUE, !.caps = NoCaps]

\* A first part that does not mark the client as being removed.
RemClientUnmarked(c) ==
    [c EXCEPT !.disconnect_time = now, !.sending = <<>>, !.caps = NoCaps]

RemClient(c) ==
    [c EXCEPT !.currently_removing = TRUE, !.disconnect_time = now,
              !.sending = <<>>, !.caps = NoCaps]

RemPoll(p, f) == [p EXCEPT ![f] = NoPoll]

\* A removal that releases no buffer of the sending list.
RemDroppedNone(c) == <<>>

\* The buffers remove_client_link unrefs: those of the sending list, unless
\* the removal of this client is already under way.
RemDropped(c) == IF c.currently_removing THEN <<>> ELSE c.sending

\* The counts after the sink took a reference on each buffer of taken and
\* released one on each buffer of dropped.
Refs(r, taken, dropped) ==
    IF "refs" \in env.observe THEN UnrefAll(RefAll(r, taken), dropped) ELSE r

\* The thread's record when it enters the removal of f and will resume at ret.
RemEnter(r, c, ret) ==
    [r EXCEPT !.pc = "rm1", !.rmfd = c.fd, !.rminst = c.inst, !.ret = ret]

\* A cursor that pointed to the freed link of f dangles.
Unhook(r, f) == IF r.cur = f THEN [r EXCEPT !.cur = Dangling] ELSE r

\* An unlinking that leaves the link in the list.
UnlinkListKeep(l, f) == l

UnlinkList(l, f) == ListRemove(l, f)

UnlinkCookie(k) == k + 1

\* A removal that closes the descriptor of the client it frees.
ReleaseFdClosed(o, f) == o \ {f}

\* remove_client_link lets go of the descriptor without closing it: that is
\* left to the host
ReleaseFd(o, f) == o

\* An emission that reports the removal twice.
EmitRemovedTwice(s, c) ==
    [s EXCEPT ![c.inst].removed = @ + 2, ![c.inst].status = c.status]

EmitRemoved(s, c) ==
    [s EXCEPT ![c.inst].removed = @ + 1, ![c.inst].status = c.status]

RemUnlink(t) ==
    /\ th[t].pc = "rm1"
    /\ lock = "free"
    /\ LET f == th[t].rmfd
           c == clients[f]
       IN /\ sig' = EmitRemoved(sig, c)
          /\ hash' = hash \ {f}
          /\ list' = UnlinkList(list, f)
          /\ clients_cookie' = UnlinkCookie(clients_cookie)
          /\ clients' = [clients EXCEPT ![f] = NoClient]
          /\ fdopen' = ReleaseFd(fdopen, f)
          /\ th' = [u \in Threads |->
                      IF u = t THEN [th[t] EXCEPT !.pc = "rm2"]
                      ELSE Unhook(th[u], f)]
    /\ UNCHANGED <<cfg, env, run, refs, bufqueue, rendered, streamheader,
                   previous_buffer_in_caps, caps, poll, now, lock, ninst,
                   pulled, wire, stall, probe>>

\* An emission that gets lost.
EmitFdRemovedLost(s, i) == s

EmitFdRemoved(s, i) == [s EXCEPT ![i].fdrem = @ + 1]

RemFinish(t) ==
    /\ th[t].pc = "rm2"
    /\ lock = "free"
    /\ sig' = EmitFdRemoved(sig, th[t].rminst)
    /\ IF t = "host"
       THEN \* remove(): gst_poll_restart, then the lock is released
            /\ lock' = "free"
            /\ th' = [th EXCEPT ![t] = IdleThread("idle")]
       ELSE /\ lock' = t
            /\ th' = [th EXCEPT ![t].pc = th[t].ret, ![t].rmfd = NoFd,
                                ![t].rminst = 0, ![t].ret = "none"]
    /\ UNCHANGED <<cfg, env, run, fdopen, refs, bufqueue, rendered, streamheader,
                   previous_buffer_in_caps, caps, clients, list, hash, poll,
                   clients_cookie, now, ninst, pulled, wire, stall, probe>>

(***************************************************************************)
(* The host's calls: add_full, remove, remove_flush.                       *)
(***************************************************************************)
\* A limits check that accepts everything.
wrong_limits_none(kind) == FALSE

\* the limits check of add_full
wrong_limits(kind) ==
    /\ kind.min_unit = kind.max_unit
    /\ kind.max_value # -1
    /\ kind.min_value # -1
    /\ kind.max_value < kind.min_value

\* the poll entry of a descriptor after gst_poll_add_fd and the read interest
AddPoll(handle_read) == [in |-> TRUE, r |-> handle_read, w |-> FALSE]

\* A lookup that finds no descriptor.
IsDuplicateNever(f) == FALSE

IsDuplicate(f) == f \in hash

AddBody(f, kind) ==
    /\ lock = "free"
    /\ ninst < env.adds
    /\ IF wrong_limits(kind)
       THEN UNCHANGED <<clients, list, hash, poll, clients_cookie, ninst, sig,
                        pulled, wire, stall>>
       ELSE IF IsDuplicate(f)
       THEN /\ ninst' = ninst + 1
            /\ sig' = [sig EXCEPT ![ninst + 1] =
                         [fd |-> f, added |-> 0, removed |-> 1, fdrem |-> 0,
                          status |-> "Duplicate", at |-> Len(rendered)]]
            /\ UNCHANGED <<clients, list, hash, poll, clients_cookie, pulled,
                           wire, stall>>
       ELSE /\ ninst' = ninst + 1
            /\ clients' = [clients EXCEPT ![f] = client_init(f, kind, now, ninst + 1)]
            /\ list' = <<f>> \o list
            /\ hash' = hash \cup {f}
            /\ clients_cookie' = clients_cookie + 1
            /\ poll' = [poll EXCEPT ![f] = AddPoll(cfg.handle_read)]
            /\ sig' = [sig EXCEPT ![ninst + 1] =
                         [fd |-> f, added |-> 1, removed |-> 0, fdrem |-> 0,
                          status |-> "None", at |-> Len(rendered)]]
            /\ pulled' = [pulled EXCEPT ![f] = <<>>]
            /\ wire' = [wire EXCEPT ![f] = <<>>]
            /\ stall' = [stall EXCEPT ![f] = 0]
    /\ UNCHANGED <<cfg, env, run, fdopen, refs, bufqueue, rendered, streamheader,
                   previous_buffer_in_caps, caps, now, lock, th>>

Add(f, kind) == AddBody(f, kind) /\ UNCHANGED probe

\* The same call with a record of it kept: which entry point was called, for
\* which descriptor and with which parameters, and the number of the call.
NoCall == [op |-> "none", n |-> 0]

AddCalled(op, f, kind) ==
    /\ probe.n < MaxCalls
    /\ AddBody(f, kind)
    /\ probe' = [op |-> op, n |-> probe.n + 1, fd |-> f, kind |-> kind]

\* A remove that does not look at the client's status.
RemoveWhatever(f) ==
    /\ lock = "free"
    /\ th["host"].pc = "idle"
    /\ IF f \in hash /\ ~clients[f].currently_removing
       THEN /\ clients' = [clients EXCEPT ![f] =
                             RemClient([clients[f] EXCEPT !.status = "Removed"])]
            /\ poll' = RemPoll(poll, f)
            /\ th' = [th EXCEPT !["host"] =
                        RemEnter(@, [clients[f] EXCEPT !.status = "Removed"], "host")]
            /\ UNCHANGED lock
       ELSE UNCHANGED <<clients, poll, lock, th>>
    /\ refs' = IF f \in hash /\ ~clients[f].currently_removing
               THEN Refs(refs, <<>>, RemDropped(clients[f])) ELSE refs
    /\ UNCHANGED <<cfg, env, run, fdopen, bufqueue, rendered, streamheader,
                   previous_buffer_in_caps, caps, list, hash, clients_cookie, now,
                   ninst, sig, pulled, wire, stall, probe>>

Remove(f) ==
    /\ lock = "free"
    /\ th["host"].pc = "idle"
    /\ IF f \in hash /\ clients[f].status = "OK"
       THEN LET c == [clients[f] EXCEPT !.status = "Removed"]
            IN IF c.currently_removing
               THEN /\ clients' = [clients EXCEPT ![f] = c]
                    /\ UNCHANGED <<poll, lock, th>>
               ELSE /\ clients' = [clients EXCEPT ![f] = RemClient(c)]
                    /\ poll' = RemPoll(poll, f)
                    /\ th' = [th EXCEPT !["host"] = RemEnter(@, c, "host")]
                    /\ UNCHANGED lock
       ELSE UNCHANGED <<clients, poll, lock, th>>
    /\ refs' = IF f \in hash /\ clients[f].status = "OK"
               THEN Refs(refs, <<>>, RemDropped(clients[f])) ELSE refs
    /\ UNCHANGED <<cfg, env, run, fdopen, bufqueue, rendered, streamheader,
                   previous_buffer_in_caps, caps, list, hash, clients_cookie, now,
                   ninst, sig, pulled, wire, stall, probe>>

FlushSeen(c, f) ==
    IF "wire" \in env.observe
    THEN [k |-> Len(wire[f]), sending |-> c.sending, off |-> c.bufoffset,
          q |-> SubSeq(bufqueue, 1, MinOf(Len(bufqueue), c.bufpos + 1))]
    ELSE NoFlush

RemoveFlush(f) ==
    /\ lock = "free"
    /\ th["host"].pc = "idle"
    /\ IF f \in hash /\ clients[f].status = "OK"
       THEN clients' = [clients EXCEPT ![f].flushcount = clients[f].bufpos + 1,
                                       ![f].status = "Flushing",
                                       ![f].flush = FlushSeen(clients[f], f)]
       ELSE UNCHANGED clients
    /\ UNCHANGED <<cfg, env, run, fdopen, refs, bufqueue, rendered, streamheader,
                   previous_buffer_in_caps, caps, list, hash, poll, clients_cookie,
                   now, lock, th, ninst, sig, pulled, wire, stall, probe>>

(***************************************************************************)
(* gst_multi_fd_sink_get_stats: the array it returns for descriptor f.     *)
(***************************************************************************)
get_stats(f) ==
    IF f \notin hash THEN <<>>
    ELSE <<clients[f].bytes_sent,
           clients[f].connect_time,
           clients[f].disconnect_time,
           IF clients[f].disconnect_time = 0 THEN now - clients[f].connect_time
           ELSE clients[f].disconnect_time - clients[f].connect_time,
           clients[f].last_activity_time,
           clients[f].dropped_buffers,
           clients[f].first_buffer_ts,
           clients[f].last_buffer_ts>>

(***************************************************************************)
(* The producer: gst_multi_fd_sink_render of a data buffer and             *)
(* gst_multi_fd_sink_queue_buffer.                                         *)
(***************************************************************************)
max_buffers(q) ==
    IF cfg.units_max > 0 THEN get_buffers_max(q, cfg.unit_type, cfg.units_max) ELSE -1

soft_max_buffers(q) ==
    IF cfg.units_soft_max > 0
    THEN get_buffers_max(q, cfg.unit_type, cfg.units_soft_max) ELSE -1

\* The buffer the producer hands to render: numbered in render order.
NewBuf(r, delta, size, hasts) ==
    DataBuf(Len(r) + 1, delta, size, IF hasts THEN Len(r) + 1 ELSE NONE)

\* queue_buffer reads the clock, then waits for the lock: from is where the
\* producer stands and tnow the time it read.
RenderFrom(from, tnow, delta, size, hasts) ==
    /\ th["prod"].pc = from
    /\ lock = "free"
    /\ Len(rendered) < env.renders
    /\ rendered' = Append(rendered, NewBuf(rendered, delta, size, hasts))
    /\ previous_buffer_in_caps' = FALSE
    /\ bufqueue' = <<NewBuf(rendered, delta, size, hasts)>> \o bufqueue
    /\ lock' = "prod"
    /\ th' = [th EXCEPT !["prod"].pc = "walk", !["prod"].cookie = clients_cookie,
                        !["prod"].cur = Head0(list), !["prod"].usage = 0,
                        !["prod"].tnow = tnow]
    /\ stall' = [f \in Fds |-> IF f \in hash /\ "stall" \in env.observe
                                THEN stall[f] + 1 ELSE stall[f]]
    /\ refs' = Refs(refs, <<NewBuf(rendered, delta, size, hasts)>>, <<>>)
    /\ UNCHANGED <<cfg, env, run, fdopen, streamheader, caps, clients, list, hash, poll,
                   clients_cookie, now, ninst, sig, pulled, wire, probe>>

\* render of a data buffer that gets the lock as soon as it has read the clock
RenderStart(delta, size, hasts) == RenderFrom("idle", now, delta, size, hasts)

\* render of a data buffer that has to wait for the lock: the clock is read
\* first, the lock is taken later
RenderClock ==
    /\ th["prod"].pc = "idle"
    /\ Len(rendered) < env.renders
    /\ th' = [th EXCEPT !["prod"].pc = "clock", !["prod"].tnow = now]
    /\ UNCHANGED <<cfg, env, run, fdopen, refs, bufqueue, rendered, streamheader,
                   previous_buffer_in_caps, caps, clients, list, hash, poll,
                   clients_cookie, now, lock, ninst, sig, pulled, wire, stall, probe>>

RenderLate(delta, size, hasts) ==
    RenderFrom("clock", th["prod"].tnow, delta, size, hasts)

\* The header-flagged buffers render was given so far, in arrival order.
HeadersSeen(p) == IF p.op = "headers" THEN p.seen ELSE <<>>

\* The header-flagged buffer the producer hands to render: named after the
\* number of data buffers rendered before it and its place among the headers
\* that arrived since the last of them.
NewHeader(r, seen, size) ==
    [kind |-> "header",
     id |-> 100 * Len(r)
            + Cardinality({k \in 1..Len(seen) : seen[k].id \div 100 = Len(r)}) + 1,
     delta |-> FALSE, size |-> size, ts |-> NONE]

\* A render that never clears the stream-header set.
HeaderRunKept(sh, prev) == sh

\* the stream-header set a header-flagged buffer is appended to
HeaderRun(sh, prev) == IF prev THEN sh ELSE <<>>

\* render of a header-flagged buffer: it takes no lock and queues nothing
RenderHeader(size) ==
    /\ th["prod"].pc = "idle"
    /\ probe.op \in {"none", "headers"}
    /\ Len(HeaderRun(streamheader, previous_buffer_in_caps)) < env.headers
    /\ streamheader' =
           Append(HeaderRun(streamheader, previous_buffer_in_caps),
                  NewHeader(rendered, HeadersSeen(probe), size))
    /\ previous_buffer_in_caps' = TRUE
    /\ refs' = Refs(refs, <<NewHeader(rendered, HeadersSeen(probe), size)>>,
                    IF previous_buffer_in_caps THEN <<>> ELSE streamheader)
    /\ probe' = [op |-> "headers",
                 seen |-> Append(HeadersSeen(probe),
                                 NewHeader(rendered, HeadersSeen(probe), size))]
    /\ UNCHANGED <<cfg, env, run, fdopen, bufqueue, rendered, caps, clients, list, hash, poll,
                   clients_cookie, now, lock, th, ninst, sig, pulled, wire, stall>>

\* A statistics counter after n more units.  Nothing in the sink but get_stats
\* reads these counters; they are kept where "stats" is observed.
Counted(v, n) == IF "stats" \in env.observe THEN v + n ELSE v

\* The position update of one client: the increment, then the recovery.
Advance(q, c) ==
    LET soft == soft_max_buffers(q)
        b == c.bufpos + 1
    IN IF soft > 0 /\ b >= soft
       THEN [c EXCEPT !.bufpos = recover_client(q, b, cfg.recover_policy,
                                                cfg.unit_type, cfg.units_soft_max),
                      !.dropped_buffers =
                          Counted(@, b - recover_client(q, b, cfg.recover_policy,
                                                        cfg.unit_type,
                                                        cfg.units_soft_max))]
       ELSE [c EXCEPT !.bufpos = b]

\* now - last_activity_time in the unsigned 64-bit arithmetic of GstClockTime:
\* a last activity later than the time read wraps around.  ClockWrap stands
\* for 2^64, beyond every time and timeout of the model.
Elapsed(tnow, last) == (tnow - last) % ClockWrap

\* An inactivity test that never finds a client inactive.
InactiveNever(tnow, c) == FALSE

\* the inactivity test of the walk and of the scan after an expired wait
Inactive(tnow, c) ==
    cfg.timeout > 0 /\ Elapsed(tnow, c.last_activity_time) > cfg.timeout

\* The hard limit and the inactivity test of the walk.
TooSlow(q, c, tnow) ==
    \/ (max_buffers(q) > 0 /\ c.bufpos >= max_buffers(q))
    \/ Inactive(tnow, c)

\* A control call that leaves the write interest as it was.
CtlWriteKept(p, f, on) == p

\* gst_poll_fd_ctl_write: no effect on a descriptor that is not in the set
CtlWrite(p, f, on) == IF p[f].in THEN [p EXCEPT ![f].w = on] ELSE p

\* The queue length the render keeps: the clients' usage, the minimum the
\* properties ask for and, for the keyframe sync methods, the newest keyframe.
KeepUsage(q, usage) ==
    LET lim == find_limits(q, cfg.bytes_min, cfg.buffers_min, cfg.time_min, -1, -1, -1)
        u1 == MaxOf(usage, lim.min_idx + 1)
        soft == soft_max_buffers(q)
        limit == IF soft > 0 THEN MinOf(Len(q), soft) ELSE Len(q)
        syncs == {i \in 0..(limit - 1) : is_sync_frame(At(q, i))}
        first == IF syncs = {} THEN -1
                 ELSE CHOOSE i \in syncs : \A j \in syncs : i <= j
    IN IF cfg.def_sync_method \in {"LatestKeyframe", "BurstKeyframe"} /\ first # -1
       THEN MaxOf(u1, first) ELSE u1

Trim(q, usage) == SubSeq(q, 1, MinOf(Len(q), usage + 1))

\* A trim that unrefs nothing of what it removes.
TrimmedNone(q, usage) == <<>>

\* the buffers the trim removes from the array and unrefs
Trimmed(q, usage) == SubSeq(q, MinOf(Len(q), usage + 1) + 1, Len(q))

\* The buffers one step of the walk unrefs: those the trim removes at its end,
\* those of the sending list of a client it evicts.
WalkDropped(q, me) ==
    IF me.cur = NoFd THEN Trimmed(q, KeepUsage(q, me.usage))
    ELSE IF me.cookie # clients_cookie THEN <<>>
    ELSE IF TooSlow(q, Advance(q, clients[me.cur]), me.tnow)
         THEN RemDropped(Advance(q, clients[me.cur]))
         ELSE <<>>

\* The walk's record once it incremented the bufpos of client c: bumps keeps
\* the clients this render incremented, in order (a history, kept where the
\* environment observes it).
Bumped(r, c) ==
    IF "bumps" \in env.observe THEN [r EXCEPT !.bumps = Append(@, c.inst)] ELSE r

ProdWalk ==
    /\ th["prod"].pc = "walk"
    /\ LET me == th["prod"]
           f == me.cur
       IN IF f = NoFd
          THEN \* the walk is over: trim the queue and release the lock
               /\ bufqueue' = Trim(bufqueue, KeepUsage(bufqueue, me.usage))
               /\ lock' = "free"
               /\ th' = [th EXCEPT !["prod"] = IdleThread("idle")]
               /\ UNCHANGED <<clients, poll>>
          ELSE IF me.cookie # clients_cookie
          THEN \* restart from the head
               /\ th' = [th EXCEPT !["prod"].cookie = clients_cookie,
                                   !["prod"].cur = Head0(list)]
               /\ UNCHANGED <<bufqueue, lock, clients, poll>>
          ELSE LET c == Advance(bufqueue, clients[f])
                   nxt == NextOf(list, f)
               IN IF TooSlow(bufqueue, c, me.tnow)
                  THEN LET d == [c EXCEPT !.status = "Slow", !.bufpos = -1]
                       IN IF d.currently_removing
                          THEN /\ clients' = [clients EXCEPT ![f] = d]
                               /\ th' = [th EXCEPT !["prod"] =
                                           Bumped([@ EXCEPT !.cur = nxt], d)]
                               /\ UNCHANGED <<bufqueue, lock, poll>>
                          ELSE /\ clients' = [clients EXCEPT ![f] = RemClient(d)]
                               /\ poll' = RemPoll(poll, f)
                               /\ lock' = "free"
                               /\ th' = [th EXCEPT !["prod"] =
                                           RemEnter(Bumped([@ EXCEPT !.cur = nxt], d),
                                                    d, "walk")]
                               /\ UNCHANGED bufqueue
                  ELSE /\ clients' = [clients EXCEPT ![f] = c]
                       /\ poll' = IF c.bufpos = 0 \/ c.new_connection
                                  THEN CtlWrite(poll, f, TRUE) ELSE poll
                       /\ th' = [th EXCEPT !["prod"] =
                                   Bumped([@ EXCEPT !.cur = nxt,
                                                    !.usage = MaxOf(me.usage, c.bufpos)],
                                          c)]
                       /\ UNCHANGED <<bufqueue, lock>>
    /\ refs' = Refs(refs, <<>>, WalkDropped(bufqueue, th["prod"]))
    /\ UNCHANGED <<cfg, env, run, fdopen, rendered, streamheader, previous_buffer_in_caps, caps,
                   list, hash, clients_cookie, now, ninst, sig, pulled, wire, stall,
                   probe>>

(***************************************************************************)
(* The stream-header gate, gst_multi_fd_sink_client_queue_buffer.          *)
(***************************************************************************)
\* A gate that compares the streamheader arrays whatever resend-streamheader is.
send_streamheader_compared(c, cur, resend) ==
    IF c.caps = NoCaps THEN TRUE
    ELSE IF cur = c.caps THEN FALSE
    ELSE IF cur.sh = 0 THEN FALSE
    ELSE IF c.caps.sh = 0 THEN TRUE
    ELSE c.caps.sh # cur.sh

send_streamheader(c, cur, resend) ==
    IF c.caps = NoCaps THEN TRUE
    ELSE IF cur = c.caps THEN FALSE
    ELSE IF cur.sh = 0 THEN FALSE
    ELSE IF c.caps.sh = 0 THEN TRUE
    ELSE IF ~resend THEN FALSE
    ELSE c.caps.sh # cur.sh

GateHeaders(c, cur, resend) ==
    IF send_streamheader(c, cur, resend) /\ cur.sh # 0 THEN ShArray(cur.sh) ELSE <<>>

\* A gate that queues the data buffer in front of the headers.
client_queue_buffer_datafirst(c, buf, cur, resend) ==
    [c EXCEPT !.sending = (c.sending \o <<buf>>) \o GateHeaders(c, cur, resend),
              !.caps = cur]

client_queue_buffer(c, buf, cur, resend) ==
    [c EXCEPT !.sending = (c.sending \o GateHeaders(c, cur, resend)) \o <<buf>>,
              !.caps = cur]

(***************************************************************************)
(* gst_multi_fd_sink_handle_client_write, one iteration of its loop.       *)
(*                                                                         *)
(* PullStep is the part that runs when the sending list is empty.  Its     *)
(* kind is "return" (the handler returns TRUE), "flushed" (it returns FALSE*)
(* with status Removed) or "send" (the write part follows); off tells      *)
(* whether write interest was disabled; got is the buffer taken from the   *)
(* queue (NoBuf when none was).                                            *)
(***************************************************************************)
NoBuf == [kind |-> "none", id |-> 0, delta |-> FALSE, size |-> 0, ts |-> NONE]

\* A grab that takes the buffer one position newer than the client's.
GrabNewer(q, pos, garbage) ==
    IF pos - 1 >= 0 /\ pos - 1 < Len(q) THEN At(q, pos - 1)
    ELSE IF pos < Len(q) THEN At(q, pos) ELSE GarbageBuf(garbage)

\* The buffer at a position: past the end of the array the read is undefined.
Grab(q, pos, garbage) == IF pos < Len(q) THEN At(q, pos) ELSE GarbageBuf(garbage)

\* the grabbed buffer is queued behind the stream-headers it needs
PullQueue(c, buf, cur, resend) ==
    [kind |-> "send",
     client |-> [client_queue_buffer(
                     [c EXCEPT !.bufpos = c.bufpos - 1,
                               !.first_buffer_ts = IF @ = NONE THEN buf.ts ELSE @,
                               !.last_buffer_ts = IF buf.ts # NONE THEN buf.ts ELSE @,
                               !.flushcount = IF @ # -1 THEN @ - 1 ELSE @],
                     buf, cur, resend) EXCEPT !.bufoffset = 0],
     off |-> FALSE, got |-> buf]

PullGrab(q, c, cur, resend, garbage) ==
    IF c.flushcount = 0
    THEN [kind |-> "flushed", client |-> [c EXCEPT !.status = "Removed"],
          off |-> FALSE, got |-> NoBuf]
    ELSE PullQueue(c, Grab(q, c.bufpos, garbage), cur, resend)

\* A placement that leaves the write-interest on when there is no position.
PullPlaceOn(q, nc, cur, resend, garbage) ==
    IF nc.result < 0
    THEN [kind |-> "return", client |-> nc.client, off |-> FALSE, got |-> NoBuf]
    ELSE PullGrab(q, [nc.client EXCEPT !.new_connection = FALSE,
                                       !.bufpos = nc.result],
                  cur, resend, garbage)

\* a new connection: nc is what new_client answered
PullPlace(q, nc, cur, resend, garbage) ==
    IF nc.result < 0
    THEN [kind |-> "return", client |-> nc.client, off |-> TRUE, got |-> NoBuf]
    ELSE PullGrab(q, [nc.client EXCEPT !.new_connection = FALSE,
                                       !.bufpos = nc.result],
                  cur, resend, garbage)

PullStep(q, c, cur, resend, flushing, garbage) ==
    IF c.sending # <<>>
    THEN [kind |-> "send", client |-> c, off |-> FALSE, got |-> NoBuf]
    ELSE IF c.bufpos = -1
    THEN IF c.flushcount = 0
         THEN [kind |-> "flushed", client |-> [c EXCEPT !.status = "Removed"],
               off |-> TRUE, got |-> NoBuf]
         ELSE [kind |-> "return", client |-> c, off |-> TRUE, got |-> NoBuf]
    ELSE IF c.new_connection /\ ~flushing
    THEN PullPlace(q, new_client(q, c), cur, resend, garbage)
    ELSE PullGrab(q, c, cur, resend, garbage)

\* The bytes of buffer b from offset o (exclusive) to o + w: what the peer gets.
Bytes(b, o, w) == [k \in 1..w |-> <<b.kind, b.id, o + k>>]

WriteOutcomes == {"full", "partial", "eagain", "reset", "error"}

\* A write part that pops a completed head without going back to offset 0.
AfterWriteKeepsOffset(c, w, tnow) ==
    LET head == Head(c.sending)
        maxsize == head.size - c.bufoffset
    IN IF w < maxsize
       THEN [c EXCEPT !.bufoffset = c.bufoffset + w, !.last_activity_time = tnow,
                      !.bytes_sent = Counted(@, w)]
       ELSE [c EXCEPT !.sending = Tail(c.sending),
                      !.last_activity_time = tnow, !.bytes_sent = Counted(@, w)]

\* The write part for a client with a non-empty sending list: the client after
\* a write of w bytes of the head (w = size - bufoffset: the whole rest).
AfterWrite(c, w, tnow) ==
    LET head == Head(c.sending)
        maxsize == head.size - c.bufoffset
    IN IF w < maxsize
       THEN [c EXCEPT !.bufoffset = c.bufoffset + w, !.last_activity_time = tnow,
                      !.bytes_sent = Counted(@, w)]
       ELSE [c EXCEPT !.sending = Tail(c.sending), !.bufoffset = 0,
                      !.last_activity_time = tnow, !.bytes_sent = Counted(@, w)]

\* The handler returned FALSE: remove_client_link, then the pass continues.
WriteFailed(f, d, p) ==
    IF d.currently_removing
    THEN /\ clients' = [clients EXCEPT ![f] = d]
         /\ poll' = p
         /\ th' = [th EXCEPT !["io"].pc = "svc", !["io"].wfd = NoFd,
                             !["io"].flushing = FALSE]
         /\ UNCHANGED lock
    ELSE /\ clients' = [clients EXCEPT ![f] = RemClient(d)]
         /\ poll' = RemPoll(p, f)
         /\ th' = [th EXCEPT !["io"] =
                     RemEnter([@ EXCEPT !.pc = "svc", !.wfd = NoFd,
                                        !.flushing = FALSE], d, "svc")]
         /\ lock' = "free"

\* The handler returned TRUE, or its loop goes on (more).
WriteDone(f, c, p, more) ==
    /\ clients' = [clients EXCEPT ![f] = c]
    /\ poll' = p
    /\ th' = IF more THEN th
             ELSE [th EXCEPT !["io"].pc = "svc", !["io"].wfd = NoFd,
                             !["io"].flushing = FALSE]
    /\ UNCHANGED lock

\* n bytes of the head of the sending list went out
WriteSent(f, c, p, n, tnow) ==
    /\ WriteDone(f, AfterWrite(c, n, tnow), p, n >= Head(c.sending).size - c.bufoffset)
    /\ wire' = IF "wire" \in env.observe
               THEN [wire EXCEPT ![f] = @ \o Bytes(Head(c.sending), c.bufoffset, n)]
               ELSE wire

\* The buffers client_queue_buffer refs in this iteration: the stream-headers
\* it queues and the buffer taken from the queue.
WriteTaken(f, ps) ==
    IF ps.got.kind = "none" THEN <<>>
    ELSE GateHeaders(clients[f], caps, cfg.resend_streamheader) \o <<ps.got>>

\* A write that keeps its reference on the buffer it has written.
WriteDroppedNone(ps, outcome, w) == <<>>

\* The buffers this iteration unrefs: the head of the sending list when it is
\* written to its end, the whole list when the handler fails and the client
\* is removed.
WriteDropped(ps, outcome, w) ==
    CASE ps.kind = "flushed" -> RemDropped(ps.client)
      [] ps.kind = "send" /\ outcome \in {"reset", "error"} -> RemDropped(ps.client)
      [] ps.kind = "send" /\ outcome = "full" -> <<Head(ps.client.sending)>>
      [] ps.kind = "send" /\ outcome = "partial" ->
           IF w >= Head(ps.client.sending).size - ps.client.bufoffset
           THEN <<Head(ps.client.sending)>> ELSE <<>>
      [] OTHER -> <<>>

\* One iteration of the loop: ps is what the pull part did.
WriteStep(f, ps, p, outcome, w, tnow) ==
    /\ refs' = Refs(refs, WriteTaken(f, ps), WriteDropped(ps, outcome, w))
    /\ pulled' = IF ps.got.kind # "none" /\ "pulled" \in env.observe
                 THEN [pulled EXCEPT ![f] = Append(@, ps.got.id)] ELSE pulled
    /\ stall' = IF ps.got.kind # "none" THEN [stall EXCEPT ![f] = 0] ELSE stall
    /\ CASE ps.kind = "return" -> WriteDone(f, ps.client, p, FALSE) /\ UNCHANGED wire
         [] ps.kind = "flushed" -> WriteFailed(f, ps.client, p) /\ UNCHANGED wire
         [] ps.kind = "send" /\ outcome = "eagain" ->
              WriteDone(f, ps.client, p, FALSE) /\ UNCHANGED wire
         [] ps.kind = "send" /\ outcome = "reset" ->
              WriteFailed(f, [ps.client EXCEPT !.status = "Closed"], p)
              /\ UNCHANGED wire
         [] ps.kind = "send" /\ outcome = "error" ->
              WriteFailed(f, [ps.client EXCEPT !.status = "Error"], p)
              /\ UNCHANGED wire
         [] ps.kind = "send" /\ outcome = "full" ->
              WriteSent(f, ps.client, p,
                        Head(ps.client.sending).size - ps.client.bufoffset, tnow)
         [] ps.kind = "send" /\ outcome = "partial" ->
              WriteSent(f, ps.client, p,
                        MinOf(w, Head(ps.client.sending).size - ps.client.bufoffset),
                        tnow)

WritePoll(f, ps) == IF ps.off THEN CtlWrite(poll, f, FALSE) ELSE poll

WritePulled(f, ps, outcome, w, tnow) ==
    WriteStep(f, ps, WritePoll(f, ps), outcome, w, tnow)

IOWrite(outcome, w, garbage) ==
    /\ th["io"].pc = "wr"
    /\ WritePulled(th["io"].wfd,
                   PullStep(bufqueue, clients[th["io"].wfd], caps,
                            cfg.resend_streamheader, th["io"].flushing, garbage),
                   outcome, w, th["io"].tnow)
    /\ UNCHANGED <<cfg, env, run, fdopen, bufqueue, rendered, streamheader,
                   previous_buffer_in_caps, caps, list, hash, clients_cookie, now,
                   ninst, sig, probe>>

(***************************************************************************)
(* gst_multi_fd_sink_handle_clients: the poll wait and the service pass.   *)
(***************************************************************************)
\* handle_clients returned to the loop of the thread function, which tests
\* running: the thread waits again, or ends.
LoopAlways == IdleThread("wait")

LoopAgain == IF run.running THEN IdleThread("wait") ELSE IdleThread("exited")

WriteInterested == {f \in Fds : poll[f].in /\ poll[f].w}

\* gst_poll_wait returned with events: canw are the descriptors reported
\* writable.  Without a writable descriptor or another event the wait blocks.
PollReturn(W) ==
    /\ th["io"].pc = "wait"
    /\ ~run.flushing
    /\ W \subseteq WriteInterested
    /\ IF env.stall THEN TRUE ELSE W = WriteInterested
    /\ IF W = {} THEN \E f \in Fds : poll[f].in /\ env.events # {} ELSE TRUE
    /\ th' = [th EXCEPT !["io"].pc = "ready", !["io"].canw = W]
    /\ UNCHANGED <<cfg, env, run, fdopen, refs, bufqueue, rendered, streamheader,
                   previous_buffer_in_caps, caps, clients, list, hash, poll,
                   clients_cookie, now, lock, ninst, sig, pulled, wire, stall, probe>>

IOLock ==
    /\ th["io"].pc = "ready"
    /\ lock = "free"
    /\ lock' = "io"
    /\ th' = [th EXCEPT !["io"].pc = "svc", !["io"].cookie = clients_cookie,
                        !["io"].cur = Head0(list)]
    /\ UNCHANGED <<cfg, env, run, fdopen, refs, bufqueue, rendered, streamheader,
                   previous_buffer_in_caps, caps, clients, list, hash, poll,
                   clients_cookie, now, ninst, sig, pulled, wire, stall, probe>>

\* gst_poll_wait returned 0: the timeout expired without an event.  The clock
\* is read before the lock is taken.
PollTimeout ==
    /\ th["io"].pc = "wait"
    /\ ~run.flushing
    /\ cfg.timeout # 0
    /\ WriteInterested = {} \/ env.stall
    /\ th' = [th EXCEPT !["io"].pc = "expired", !["io"].tnow = now]
    /\ UNCHANGED <<cfg, env, run, fdopen, refs, bufqueue, rendered, streamheader,
                   previous_buffer_in_caps, caps, clients, list, hash, poll,
                   clients_cookie, now, lock, ninst, sig, pulled, wire, stall, probe>>

ScanLock ==
    /\ th["io"].pc = "expired"
    /\ lock = "free"
    /\ lock' = "io"
    /\ th' = [th EXCEPT !["io"].pc = "scan", !["io"].cur = Head0(list)]
    /\ UNCHANGED <<cfg, env, run, fdopen, refs, bufqueue, rendered, streamheader,
                   previous_buffer_in_caps, caps, clients, list, hash, poll,
                   clients_cookie, now, ninst, sig, pulled, wire, stall, probe>>

\* One client of the scan.  The next link is saved before the removal, which
\* releases the lock, and no cookie is compared: a cursor whose link was freed
\* meanwhile is read all the same, and what is found there is undefined (g).
ScanStep(g) ==
    /\ th["io"].pc = "scan"
    /\ LET me == th["io"]
           f == me.cur
       IN IF f = NoFd
          THEN /\ g = NoFd
               /\ lock' = "free"
               /\ th' = [th EXCEPT !["io"] = LoopAgain]
               /\ UNCHANGED <<clients, poll, refs>>
          ELSE IF f = Dangling
          THEN /\ g \in hash \cup {NoFd}
               /\ th' = [th EXCEPT !["io"].cur = g]
               /\ UNCHANGED <<clients, poll, lock, refs>>
          ELSE /\ g = NoFd
               /\ IF Inactive(me.tnow, clients[f])
                  THEN IF clients[f].currently_removing
                       THEN /\ clients' = [clients EXCEPT ![f].status = "Slow"]
                            /\ th' = [th EXCEPT !["io"].cur = NextOf(list, f)]
                            /\ UNCHANGED <<poll, lock, refs>>
                       ELSE /\ clients' = [clients EXCEPT ![f] =
                                             RemClient([@ EXCEPT !.status = "Slow"])]
                            /\ poll' = RemPoll(poll, f)
                            /\ th' = [th EXCEPT !["io"] =
                                        RemEnter([me EXCEPT !.cur = NextOf(list, f)],
                                                 clients[f], "scan")]
                            /\ lock' = "free"
                            /\ refs' = Refs(refs, <<>>, RemDropped(clients[f]))
                  ELSE /\ th' = [th EXCEPT !["io"].cur = NextOf(list, f)]
                       /\ UNCHANGED <<clients, poll, lock, refs>>
    /\ UNCHANGED <<cfg, env, run, fdopen, bufqueue, rendered, streamheader,
                   previous_buffer_in_caps, caps, list, hash, clients_cookie, now,
                   ninst, sig, pulled, wire, stall, probe>>

\* gst_poll_wait failed with EBADF: a descriptor of the set is not open.
PollBadFd ==
    /\ th["io"].pc = "wait"
    /\ ~run.flushing
    /\ \E f \in Fds : poll[f].in /\ f \notin fdopen
    /\ th' = [th EXCEPT !["io"].pc = "ebadf"]
    /\ UNCHANGED <<cfg, env, run, fdopen, refs, bufqueue, rendered, streamheader,
                   previous_buffer_in_caps, caps, clients, list, hash, poll,
                   clients_cookie, now, lock, ninst, sig, pulled, wire, stall, probe>>

BadLock ==
    /\ th["io"].pc = "ebadf"
    /\ lock = "free"
    /\ lock' = "io"
    /\ th' = [th EXCEPT !["io"].pc = "bad", !["io"].cookie = clients_cookie,
                        !["io"].cur = Head0(list)]
    /\ UNCHANGED <<cfg, env, run, fdopen, refs, bufqueue, rendered, streamheader,
                   previous_buffer_in_caps, caps, clients, list, hash, poll,
                   clients_cookie, now, ninst, sig, pulled, wire, stall, probe>>

\* One client of the scan for bad descriptors: fcntl fails with EBADF on a
\* descriptor that is not open, and its client is removed with status Error.
\* After the scan the wait is tried again.
BadStep ==
    /\ th["io"].pc = "bad"
    /\ LET me == th["io"]
           f == me.cur
       IN IF f = NoFd
          THEN /\ lock' = "free"
               /\ th' = [th EXCEPT !["io"] = IdleThread("wait")]
               /\ UNCHANGED <<clients, poll, refs>>
          ELSE IF me.cookie # clients_cookie
          THEN /\ th' = [th EXCEPT !["io"].cookie = clients_cookie,
                                   !["io"].cur = Head0(list)]
               /\ UNCHANGED <<clients, poll, lock, refs>>
          ELSE IF f \notin fdopen
          THEN IF clients[f].currently_removing
               THEN /\ clients' = [clients EXCEPT ![f].status = "Error"]
                    /\ th' = [th EXCEPT !["io"].cur = NextOf(list, f)]
                    /\ UNCHANGED <<poll, lock, refs>>
               ELSE /\ clients' = [clients EXCEPT ![f] =
                                     RemClient([@ EXCEPT !.status = "Error"])]
                    /\ poll' = RemPoll(poll, f)
                    /\ th' = [th EXCEPT !["io"] =
                                RemEnter([me EXCEPT !.cur = NextOf(list, f)],
                                         clients[f], "bad")]
                    /\ lock' = "free"
                    /\ refs' = Refs(refs, <<>>, RemDropped(clients[f]))
          ELSE /\ th' = [th EXCEPT !["io"].cur = NextOf(list, f)]
               /\ UNCHANGED <<clients, poll, lock, refs>>
    /\ UNCHANGED <<cfg, env, run, fdopen, bufqueue, rendered, streamheader,
                   previous_buffer_in_caps, caps, list, hash, clients_cookie, now,
                   ninst, sig, pulled, wire, stall, probe>>

\* What the poll set and the read handler report for a descriptor.
PeerEvents == {"ok", "closed", "error", "readclose", "readerr", "read"}

EventStatus(ev) ==
    CASE ev = "closed" -> "Closed"
      [] ev = "error" -> "Error"
      [] ev = "readclose" -> "Closed"
      [] ev = "readerr" -> "Error"

EventPossible(f, ev) ==
    IF ev = "ok" THEN TRUE
    ELSE /\ ev \in env.events
         /\ poll[f].in
         /\ (ev \in {"readclose", "readerr", "read"} => poll[f].r)

IOSvc(ev) ==
    /\ th["io"].pc = "svc"
    /\ LET me == th["io"]
           f == me.cur
       IN IF f = NoFd
          THEN /\ lock' = "free"
               /\ th' = [th EXCEPT !["io"] = LoopAgain]
               /\ UNCHANGED <<clients, poll, refs>>
          ELSE IF me.cookie # clients_cookie
          THEN /\ th' = [th EXCEPT !["io"].cookie = clients_cookie,
                                   !["io"].cur = Head0(list)]
               /\ UNCHANGED <<clients, poll, lock, refs>>
          ELSE LET c == clients[f]
                   nxt == NextOf(list, f)
                   on == [me EXCEPT !.cur = nxt]
                   Drop(d) ==
                       IF d.currently_removing
                       THEN /\ clients' = [clients EXCEPT ![f] = d]
                            /\ th' = [th EXCEPT !["io"] = on]
                            /\ UNCHANGED <<poll, lock, refs>>
                       ELSE /\ clients' = [clients EXCEPT ![f] = RemClient(d)]
                            /\ poll' = RemPoll(poll, f)
                            /\ th' = [th EXCEPT !["io"] = RemEnter(on, d, "svc")]
                            /\ lock' = "free"
                            /\ refs' = Refs(refs, <<>>, RemDropped(d))
               IN /\ EventPossible(f, ev)
                  /\ IF c.status \notin {"OK", "Flushing"}
                     THEN Drop(c)
                     ELSE IF ev = "read"
                     THEN \* FIONREAD reports a > 0 bytes: the read loop follows
                          /\ \E a \in env.avails :
                                th' = [th EXCEPT !["io"] =
                                         [on EXCEPT !.pc = "rd", !.wfd = f,
                                                    !.avail = a, !.avail0 = a,
                                                    !.reads = 0]]
                          /\ UNCHANGED <<clients, poll, lock, refs>>
                     ELSE IF ev # "ok"
                     THEN Drop([c EXCEPT !.status = EventStatus(ev)])
                     ELSE IF f \in me.canw /\ poll[f].in
                     THEN /\ th' = [th EXCEPT !["io"] =
                                      [on EXCEPT !.pc = "wr", !.wfd = f, !.tnow = now,
                                                 !.flushing = (c.status = "Flushing")]]
                          /\ UNCHANGED <<clients, poll, lock, refs>>
                     ELSE /\ th' = [th EXCEPT !["io"] = on]
                          /\ UNCHANGED <<clients, poll, lock, refs>>
    /\ UNCHANGED <<cfg, env, run, fdopen, bufqueue, rendered, streamheader,
                   previous_buffer_in_caps, caps, list, hash, clients_cookie, now,
                   ninst, sig, pulled, wire, stall, probe>>

(***************************************************************************)
(* gst_multi_fd_sink_handle_client_read, one iteration of its read loop.   *)
(* nread is what read() returned: -1 on an error, 0 at the end of the      *)
(* stream, else the bytes read, at most MIN (avail, 512).  reads counts the*)
(* calls of read() of this run of the handler; it is capped at MaxReads,   *)
(* far below the 2^31 calls after which avail would overflow.              *)
(***************************************************************************)
ReadChunk == 512

\* the test of the loop for an error of read()
ReadError(nread) == nread < -1

\* The handler is done with the thread's locals.
ReadOver(r) == [r EXCEPT !.avail = 0, !.avail0 = 0, !.reads = 0]

IORead(nread) ==
    /\ th["io"].pc = "rd"
    /\ th["io"].reads < MaxReads
    /\ nread <= MinOf(th["io"].avail, ReadChunk)
    /\ LET me == th["io"]
           f == me.wfd
           c == clients[f]
       IN IF ReadError(nread) \/ nread = 0
          THEN \* the handler returns FALSE: remove_client_link
               LET d == [c EXCEPT !.status = "Error"]
               IN IF d.currently_removing
                  THEN /\ clients' = [clients EXCEPT ![f] = d]
                       /\ th' = [th EXCEPT !["io"] =
                                   ReadOver([me EXCEPT !.pc = "svc", !.wfd = NoFd])]
                       /\ UNCHANGED <<poll, lock, refs>>
                  ELSE /\ clients' = [clients EXCEPT ![f] = RemClient(d)]
                       /\ poll' = RemPoll(poll, f)
                       /\ th' = [th EXCEPT !["io"] =
                                   RemEnter(ReadOver([me EXCEPT !.pc = "svc",
                                                                !.wfd = NoFd]),
                                            d, "svc")]
                       /\ lock' = "free"
                       /\ refs' = Refs(refs, <<>>, RemDropped(d))
          ELSE IF me.avail - nread > 0
          THEN /\ th' = [th EXCEPT !["io"].avail = me.avail - nread,
                                   !["io"].reads = me.reads + 1]
               /\ UNCHANGED <<clients, poll, lock, refs>>
          ELSE \* the handler returns TRUE: the write check of the pass follows
               /\ th' = [th EXCEPT !["io"] =
                           IF f \in me.canw /\ poll[f].in
                           THEN ReadOver([me EXCEPT !.pc = "wr", !.tnow = now,
                                             !.flushing = (c.status = "Flushing")])
                           ELSE ReadOver([me EXCEPT !.pc = "svc", !.wfd = NoFd])]
               /\ UNCHANGED <<clients, poll, lock, refs>>
    /\ UNCHANGED <<cfg, env, run, fdopen, bufqueue, rendered, streamheader,
                   previous_buffer_in_caps, caps, list, hash, clients_cookie, now,
                   ninst, sig, pulled, wire, stall, probe>>

(***************************************************************************)
(* The environment: the clock and the pad's caps.                          *)
(***************************************************************************)
Tick ==
    /\ cfg.timeout > 0
    /\ now < MaxTime
    /\ now' = now + 1
    /\ UNCHANGED <<cfg, env, run, fdopen, refs, bufqueue, rendered, streamheader,
                   previous_buffer_in_caps, caps, clients, list, hash, poll,
                   clients_cookie, lock, th, ninst, sig, pulled, wire, stall, probe>>

SetCaps(c) ==
    /\ th["prod"].pc = "idle"
    /\ c \in env.caps
    /\ c # caps
    /\ caps' = c
    /\ UNCHANGED <<cfg, env, run, fdopen, refs, bufqueue, rendered, streamheader,
                   previous_buffer_in_caps, clients, list, hash, poll,
                   clients_cookie, now, lock, th, ninst, sig, pulled, wire, stall,
                   probe>>

(***************************************************************************)
(* Configurations.  DefaultCfg holds the properties as the instance init   *)
(* leaves them; each specification below changes the ones it is about.     *)
(***************************************************************************)
DefaultCfg ==
    [unit_type |-> "Buffers", units_max |-> -1, units_soft_max |-> -1,
     recover_policy |-> "None", timeout |-> 0, def_sync_method |-> "Latest",
     bytes_min |-> -1, buffers_min |-> -1, time_min |-> -1,
     resend_streamheader |-> TRUE, handle_read |-> TRUE,
     def_burst_unit |-> "Undefined", def_burst_value |-> 0]

\* add(): the default sync method and burst parameters
DefaultKind(c) ==
    [sync |-> c.def_sync_method, min_unit |-> c.def_burst_unit,
     min_value |-> c.def_burst_value, max_unit |-> c.def_burst_unit,
     max_value |-> -1]

\* What the surroundings may do: the descriptors the host adds, the shapes of
\* the producer's buffers, the outcomes of write(), the events poll reports,
\* whether a peer may be unwritable, the caps the pad may carry, and which of
\* the histories (pulled, wire, stall) are recorded.
DefaultEnv ==
    [fds |-> {1, 2}, adds |-> MaxAdds, renders |-> MaxRender,
     sizes |-> {1}, deltas |-> {FALSE}, stamps |-> {FALSE},
     outcomes |-> {"full"}, events |-> {}, stall |-> FALSE,
     caps |-> {[cid |-> 1, sh |-> 0]}, observe |-> {}, avails |-> {},
     nreads |-> {}, kinds |-> {}, headers |-> 0]

(***************************************************************************)
(* The host and the descriptors.  The host owns them: it closes one that   *)
(* is not with the sink and for which no client-fd-removed is outstanding, *)
(* and hands only open descriptors to add.                                 *)
(***************************************************************************)
WithSink(f) ==
    \/ f \in hash
    \/ InList(list, f)
    \/ \E t \in Threads : th[t].rmfd = f

HostClose(f) ==
    /\ f \in fdopen
    /\ ~WithSink(f)
    /\ fdopen' = fdopen \ {f}
    /\ UNCHANGED <<cfg, env, run, refs, bufqueue, rendered, streamheader,
                   previous_buffer_in_caps, caps, clients, list, hash, poll,
                   clients_cookie, now, lock, th, ninst, sig, pulled, wire, stall,
                   probe>>

\* A host that closes a descriptor it left with the sink.
HostCloseHeld(f) ==
    /\ f \in fdopen
    /\ f \in hash
    /\ fdopen' = fdopen \ {f}
    /\ UNCHANGED <<cfg, env, run, refs, bufqueue, rendered, streamheader,
                   previous_buffer_in_caps, caps, clients, list, hash, poll,
                   clients_cookie, now, lock, th, ninst, sig, pulled, wire, stall,
                   probe>>

(***************************************************************************)
(* The stop of the element.  The base class clears running, calls          *)
(* stop_pre, joins the I/O thread and calls stop_post.                     *)
(***************************************************************************)
StopBegin ==
    /\ run.stop = "no"
    /\ run' = [run EXCEPT !.running = FALSE, !.stop = "begun"]
    /\ UNCHANGED <<cfg, env, fdopen, refs, bufqueue, rendered, streamheader,
                   previous_buffer_in_caps, caps, clients, list, hash, poll,
                   clients_cookie, now, lock, th, ninst, sig, pulled, wire, stall,
                   probe>>

\* gst_poll_set_flushing (fdset, TRUE)
set_flushing(r) == [r EXCEPT !.flushing = TRUE]

StopPre ==
    /\ run.stop = "begun"
    /\ run' = [set_flushing(run) EXCEPT !.stop = "pre"]
    /\ UNCHANGED <<cfg, env, fdopen, refs, bufqueue, rendered, streamheader,
                   previous_buffer_in_caps, caps, clients, list, hash, poll,
                   clients_cookie, now, lock, th, ninst, sig, pulled, wire, stall,
                   probe>>

\* gst_poll_wait on a flushing set fails with EBUSY: handle_clients returns
\* and the thread function tests running.
PollFlushed ==
    /\ th["io"].pc = "wait"
    /\ run.flushing
    /\ th' = [th EXCEPT !["io"] = LoopAgain]
    /\ UNCHANGED <<cfg, env, run, fdopen, refs, bufqueue, rendered, streamheader,
                   previous_buffer_in_caps, caps, clients, list, hash, poll,
                   clients_cookie, now, lock, ninst, sig, pulled, wire, stall, probe>>

\* stop_post, once the I/O thread is joined: the poll set is freed and every
\* entry of the hash removed.
StopPost ==
    /\ run.stop = "pre"
    /\ th["io"].pc = "exited"
    /\ run' = [run EXCEPT !.stop = "post"]
    /\ poll' = [f \in Fds |-> NoPoll]
    /\ hash' = {}
    /\ UNCHANGED <<cfg, env, fdopen, refs, bufqueue, rendered, streamheader,
                   previous_buffer_in_caps, caps, clients, list, clients_cookie,
                   now, lock, th, ninst, sig, pulled, wire, stall, probe>>

(***************************************************************************)
(* The steps of the program, shared by the specifications.                 *)
(***************************************************************************)
HostAdd == \E f \in env.fds : Add(f, DefaultKind(cfg))
HostRemove == \E f \in env.fds : Remove(f)
HostRemoveFlush == \E f \in env.fds : RemoveFlush(f)
Render == \E d \in env.deltas, z \in env.sizes, h \in env.stamps : RenderStart(d, z, h)
Wait == \E W \in SUBSET Fds : PollReturn(W)
Service == \E ev \in {"ok"} \cup env.events : IOSvc(ev)
Write == \E o \in env.outcomes, g \in BOOLEAN : IOWrite(o, 1, g)
Unlink == \E t \in Threads : RemUnlink(t)
Finish == \E t \in Threads : RemFinish(t)
Read == \E n \in env.nreads : IORead(n)
RenderHdr == \E z \in env.sizes : RenderHeader(z)
RenderWaited == \E d \in env.deltas, z \in env.sizes, h \in env.stamps : RenderLate(d, z, h)
Scan == \E g \in Fds \cup {NoFd} : ScanStep(g)
HostAddOpen == \E f \in env.fds \cap fdopen : Add(f, DefaultKind(cfg))
HostCloses == \E f \in env.fds : HostClose(f)
HostAddCalled == \E f \in env.fds : AddCalled("add", f, DefaultKind(cfg))
HostAddFull == \E f \in env.fds, k \in env.kinds : AddCalled("add_full", f, k)
WriteSome == \E o \in env.outcomes, w \in 0..MaxWrote : IOWrite(o, w, FALSE)
HostClosesHeld == \E f \in env.fds : HostCloseHeld(f)

(***************************************************************************)
(* Spec: two descriptors, the hard limit at one buffer, the host adding,    *)
(* removing and flushing at any time.                                      *)
(***************************************************************************)
MainCfg == [DefaultCfg EXCEPT !.units_max = 1]
MainEnv == [DefaultEnv EXCEPT !.observe = {"pulled"}]

Init == InitWith(MainCfg, MainEnv)

Next ==
    \/ HostAdd
    \/ HostRemove
    \/ HostRemoveFlush
    \/ Render
    \/ ProdWalk
    \/ Wait
    \/ IOLock
    \/ Service
    \/ Write
    \/ Unlink
    \/ Finish

Spec == Init /\ [][Next]_vars

(***************************************************************************)
(* Properties of Spec.                                                     *)
(***************************************************************************)
InTable(f) == f \in hash \/ InList(list, f)

\* C2: the buffers pulled from the global queue for a client are buffers of
\* the stream in strictly increasing render order: a subsequence of the
\* producer's render order in which no buffer comes twice.
C2_PulledInRenderOrder ==
    \A f \in Fds :
        \A i, j \in 1..Len(pulled[f]) :
            /\ pulled[f][i] \in 1..Len(rendered)
            /\ (i < j => pulled[f][i] < pulled[f][j])

\* The removal of client structure i has emitted client-removed and has yet
\* to emit client-fd-removed.
FdRemovedPending(i) == \E t \in Threads : th[t].pc = "rm2" /\ th[t].rminst = i

RemovedOnceThenFdRemoved(i) ==
    /\ sig[i].removed <= 1
    /\ sig[i].fdrem <= sig[i].removed
    /\ (sig[i].removed = 1 /\ sig[i].fdrem = 0 => FdRemovedPending(i))

\* C3 as stated: every client-removed notification, whatever its status and
\* Duplicate included, is emitted once for its client and is followed by
\* exactly one client-fd-removed.
C3_EveryRemovedThenFdRemoved ==
    \A i \in DOMAIN sig : RemovedOnceThenFdRemoved(i)

\* C3 as the code has it: every client-removed notification with a status
\* other than Duplicate is emitted once for its client and is followed by
\* exactly one client-fd-removed; a Duplicate one is followed by none.
C3_RemovedThenFdRemoved ==
    \A i \in DOMAIN sig :
        IF sig[i].status = "Duplicate"
        THEN sig[i].removed = 1 /\ sig[i].fdrem = 0
        ELSE RemovedOnceThenFdRemoved(i)

\* A client evicted as Slow by the render got both notifications, and an add
\* of a registered descriptor got its Duplicate notification.
C3_Witness ==
    \E i, j \in DOMAIN sig :
        /\ sig[i].status = "Slow" /\ sig[i].removed = 1 /\ sig[i].fdrem = 1
        /\ sig[j].status = "Duplicate"

\* C4: when client-fd-removed is emitted for a descriptor, no client with that
\* descriptor is in the hash or in the client list, whatever adds the host
\* made while the removal had released the lock.
C4_FdGoneWhenFdRemoved ==
    [][\A t \in Threads :
          (th[t].pc = "rm2" /\ th'[t].pc # "rm2") => ~InTable(th[t].rmfd)]_vars

(***************************************************************************)
(* SpecWalk: three descriptors, an inactivity timeout of one tick and one   *)
(* render, so that the walk over the clients meets a client in front of    *)
(* and one behind an evicted client.                                       *)
(***************************************************************************)
WalkCfg == [DefaultCfg EXCEPT !.timeout = 1]
WalkEnv == [DefaultEnv EXCEPT !.fds = Fds, !.adds = WalkAdds, !.renders = WalkRenders]

InitWalk == InitWith(WalkCfg, WalkEnv)

NextWalk ==
    \/ HostAdd
    \/ Render
    \/ ProdWalk
    \/ Wait
    \/ IOLock
    \/ Service
    \/ Write
    \/ Unlink
    \/ Finish
    \/ Tick

SpecWalk == InitWalk /\ [][NextWalk]_vars

\* C1: in every reachable state every client in the table has bufpos = -1 or
\* 0 <= bufpos < length of the global queue, also after a render in which
\* another client is evicted and the walk over the clients restarts.
C1_BufposInsideQueue ==
    \A f \in Fds :
        InTable(f) =>
            \/ clients[f].bufpos = -1
            \/ (0 <= clients[f].bufpos /\ clients[f].bufpos < Len(bufqueue))

(***************************************************************************)
(* FairSpec: one descriptor, no limits; the threads of the sink take their *)
(* steps (a render in progress completes, the I/O thread returns from the  *)
(* wait when a descriptor is writable and serves it, a removal goes on),   *)
(* but neither the producer nor the host has to call in.                   *)
(***************************************************************************)
FairEnv == [DefaultEnv EXCEPT !.fds = {1}, !.adds = FairAdds]

InitFair == InitWith(DefaultCfg, FairEnv)

NextFair ==
    \/ HostAdd
    \/ HostRemove
    \/ HostRemoveFlush
    \/ Render
    \/ ProdWalk
    \/ Wait
    \/ IOLock
    \/ Service
    \/ Write
    \/ Unlink
    \/ Finish

\* The steps of each thread that need no call from outside.
ProdStep == ProdWalk \/ RemUnlink("prod") \/ RemFinish("prod")
IOStep == Wait \/ IOLock \/ Service \/ Write \/ RemUnlink("io") \/ RemFinish("io")
HostStep == RemUnlink("host") \/ RemFinish("host")

FairSpec ==
    /\ InitFair
    /\ [][NextFair]_vars
    /\ WF_vars(ProdStep)
    /\ WF_vars(IOStep)
    /\ WF_vars(HostStep)

\* C5 as stated: for every client for which client-added was emitted, the
\* sink eventually emits one client-removed and after it one
\* client-fd-removed.
C5_AddedLeadsToRemoved ==
    \A i \in 1..FairAdds :
        (sig[i].added = 1) ~> (sig[i].removed = 1 /\ sig[i].fdrem = 1)

\* C5 as the code has it: a client for which client-added was emitted gets at
\* most one client-removed, never a client-fd-removed before it, and once
\* client-removed is emitted one client-fd-removed eventually follows; a client
\* nobody removes gets neither.
C5_RemovedLeadsToFdRemoved ==
    /\ [](\A i \in DOMAIN sig : sig[i].removed <= 1 /\ sig[i].fdrem <= sig[i].removed)
    /\ \A i \in 1..FairAdds :
          (sig[i].added = 1 /\ sig[i].removed = 1) ~> (sig[i].fdrem = 1)

\* A client that was added while the stream ran and then removed got both
\* notifications.
C5_Witness ==
    \E i \in DOMAIN sig :
        /\ sig[i].added = 1 /\ sig[i].status = "Removed"
        /\ sig[i].removed = 1 /\ sig[i].fdrem = 1
        /\ th["host"].pc = "idle"
        /\ rendered # <<>>

\* C12: after remove_flush on a client with status OK, whatever its position
\* and whether or not another buffer is rendered, the client is eventually
\* removed with status Removed, the peer accepting every write and the I/O
\* thread being scheduled fairly.
C12_FlushLeadsToRemoved ==
    \A i \in 1..FairAdds :
        (sig[i].added = 1 /\ sig[i].removed = 0
            /\ clients[sig[i].fd].status = "Flushing")
          ~> (sig[i].removed = 1 /\ sig[i].status = "Removed")

(***************************************************************************)
(* SpecLatest: a single client with sync method Latest, no limit and no    *)
(* timeout, a peer that takes every write wholly or in part.               *)
(***************************************************************************)
LatestEnv ==
    [DefaultEnv EXCEPT !.fds = {1}, !.adds = 1, !.renders = SoloRenders,
                       !.sizes = {1, 2}, !.outcomes = {"full", "partial"},
                       !.observe = {"wire"}]

InitLatest == InitWith(DefaultCfg, LatestEnv)

NextLatest ==
    \/ HostAdd
    \/ Render
    \/ ProdWalk
    \/ Wait
    \/ IOLock
    \/ Service
    \/ Write

SpecLatest == InitLatest /\ [][NextLatest]_vars

\* the bytes of the buffers of r, in order
RECURSIVE Concat(_)
Concat(r) ==
    IF r = <<>> THEN <<>> ELSE Bytes(Head(r), 0, Head(r).size) \o Concat(Tail(r))

\* the data buffers rendered after the add of the client of descriptor f
RenderedSinceAdd(f) ==
    SubSeq(rendered, sig[clients[f].inst].at + 1, Len(rendered))

DataBytes(w) == SelectSeq(w, LAMBDA x : x[1] = "data")

IsPrefix(a, b) == Len(a) <= Len(b) /\ a = SubSeq(b, 1, Len(a))

\* The I/O thread has nothing left to do for f: it waits, no render is under
\* way and the descriptor is not polled for writing.
Quiescent(f) ==
    /\ th["io"].pc = "wait"
    /\ th["prod"].pc = "idle"
    /\ ~poll[f].w

\* C6: for a single client with sync method Latest, no limits, no timeout and
\* a peer that accepts every write, the data bytes received are at every point
\* a prefix of the concatenation, in render order, of the data buffers rendered
\* after the add, and equal to it once the I/O thread has run to quiescence.
C6_LatestReceivesAllSinceAdd ==
    \A f \in Fds :
        InTable(f) =>
            /\ wire[f] = DataBytes(wire[f])
            /\ IsPrefix(wire[f], Concat(RenderedSinceAdd(f)))
            /\ (Quiescent(f) => wire[f] = Concat(RenderedSinceAdd(f)))

\* A client added after the first render has received, at quiescence, the two
\* buffers rendered after its add, one of them of two bytes.
C6_Witness ==
    /\ InTable(1)
    /\ Quiescent(1)
    /\ sig[clients[1].inst].at = 1
    /\ Len(rendered) = 3
    /\ Len(wire[1]) >= 3
    /\ wire[1] = Concat(RenderedSinceAdd(1))

(***************************************************************************)
(* SpecHdr: one client, caps that change between the renders and carry a   *)
(* streamheader field or none, buffers of two bytes written in one or two  *)
(* writes, resend-streamheader on or off.                                  *)
(***************************************************************************)
HdrCfgs == {[DefaultCfg EXCEPT !.resend_streamheader = r] : r \in BOOLEAN}

HdrEnv ==
    [DefaultEnv EXCEPT !.fds = {1}, !.adds = 1, !.renders = HdrRenders,
                       !.sizes = {2}, !.outcomes = {"full", "partial"},
                       !.caps = CapsSet, !.observe = {"wire"}]

InitHdr == \E c \in HdrCfgs : InitWith(c, HdrEnv)

PadCaps == \E c \in CapsSet : SetCaps(c)

NextHdr ==
    \/ HostAdd
    \/ Render
    \/ ProdWalk
    \/ Wait
    \/ IOLock
    \/ Service
    \/ Write
    \/ PadCaps

SpecHdr == InitHdr /\ [][NextHdr]_vars

IsHdr(b) == b.kind = "hdr"

\* The sending list is empty or holds stream-headers and, last, one buffer of
\* the queue.
HeadersThenData(l) ==
    \/ l = <<>>
    \/ /\ ~IsHdr(l[Len(l)])
       /\ \A k \in 1..(Len(l) - 1) : IsHdr(l[k])

\* Byte k of w begins a buffer: it is the first byte on the wire or follows the
\* last byte of a buffer.
BeginsBuffer(w, k) ==
    \/ k = 1
    \/ w[k - 1][1] = "hdr"
    \/ w[k - 1][1] = "data" /\ w[k - 1][3] = rendered[w[k - 1][2]].size

\* On the wire the stream-headers of a caps come whole, in order, between two
\* buffers, and a data buffer follows them.
HeadersOnWire(w) ==
    \A k \in 1..Len(w) :
        /\ BeginsBuffer(w, k) => w[k][3] = 1
        /\ (w[k][1] = "hdr" /\ w[k][2] % 10 = 1) =>
              /\ k = 1 \/ w[k - 1][1] = "data"
              /\ k < Len(w) => w[k + 1] = <<"hdr", w[k][2] + 1, 1>>
        /\ (w[k][1] = "hdr" /\ w[k][2] % 10 = 2) =>
              /\ k > 1 /\ w[k - 1] = <<"hdr", w[k][2] - 1, 1>>
              /\ k < Len(w) => w[k + 1][1] = "data"

\* C7: the stream-headers the gate queues for a client are written before the
\* data buffer that triggered the gate, and the gate runs only when the
\* client's sending list is empty, so headers never land inside a partially
\* written buffer.
C7_HeadersBeforeData ==
    /\ [](\A f \in Fds : InTable(f) =>
             HeadersThenData(clients[f].sending) /\ HeadersOnWire(wire[f]))
    /\ [][\A f \in Fds :
             (InTable(f) /\ Len(clients'[f].sending) > Len(clients[f].sending))
                 => clients[f].sending = <<>>]_vars

\* A client that got a data buffer in two writes and then, the caps having
\* changed, the new stream-headers and the first byte of the next buffer.
C7_Witness ==
    \E k \in 4..Len(wire[1]) :
        /\ InTable(1)
        /\ wire[1][k] = <<"data", 2, 1>>
        /\ wire[1][k - 1][1] = "hdr"
        /\ wire[1][k - 3] = <<"data", 1, 2>>
        /\ clients[1].bufoffset = 1

(***************************************************************************)
(* SpecHard: three descriptors, the hard limit at two buffers, peers that  *)
(* may stay unserved.                                                      *)
(***************************************************************************)
HardCfg == [DefaultCfg EXCEPT !.units_max = 2]

HardEnv ==
    [DefaultEnv EXCEPT !.fds = Fds, !.adds = WalkAdds, !.renders = LimitRenders,
                       !.observe = {"stall", "pulled"}]

InitHard == InitWith(HardCfg, HardEnv)

NextHard ==
    \/ HostAdd
    \/ Render
    \/ ProdWalk
    \/ Wait
    \/ IOLock
    \/ Service
    \/ Write
    \/ Unlink
    \/ Finish

SpecHard == InitHard /\ [][NextHard]_vars

\* C8: with unit type Buffers and units-max N > 0, a client that pulls no
\* buffer is marked Slow and removed by the render that is its (N+1)-th
\* prepend, and after every render every client in the table has bufpos < N.
C8_SlowAtHardLimit ==
    (cfg.unit_type = "Buffers" /\ cfg.units_max > 0) =>
        \A f \in Fds :
            InTable(f) =>
                /\ (th["prod"].pc = "idle" => clients[f].bufpos < cfg.units_max)
                /\ (th["prod"].pc = "idle" /\ pulled[f] = <<>>
                        => stall[f] <= cfg.units_max)
                /\ (clients[f].status = "Slow" /\ pulled[f] = <<>>
                        => stall[f] = cfg.units_max + 1)

(***************************************************************************)
(* SpecSoft: two descriptors, the soft limit at one or two buffers with the*)
(* policy ResyncSoftLimit.                                                 *)
(***************************************************************************)
SoftCfgs ==
    {[DefaultCfg EXCEPT !.units_soft_max = m, !.recover_policy = "ResyncSoftLimit"] :
        m \in 1..2}

SoftEnv ==
    [DefaultEnv EXCEPT !.renders = LimitRenders, !.observe = {"stall", "pulled"}]

InitSoft == \E c \in SoftCfgs : InitWith(c, SoftEnv)

NextSoft ==
    \/ HostAdd
    \/ HostRemove
    \/ Render
    \/ ProdWalk
    \/ Wait
    \/ IOLock
    \/ Service
    \/ Write
    \/ Unlink
    \/ Finish

SpecSoft == InitSoft /\ [][NextSoft]_vars

\* C9: with unit type Buffers, units-soft-max M > 0 and the policy
\* ResyncSoftLimit, the render whose increment takes a stalled client to or
\* past M sets its bufpos to M, and after every render every client in the
\* table has bufpos <= M.
C9_SnapsToSoftLimit ==
    (cfg.unit_type = "Buffers" /\ cfg.units_soft_max > 0
        /\ cfg.recover_policy = "ResyncSoftLimit") =>
        \A f \in Fds :
            (InTable(f) /\ th["prod"].pc = "idle") =>
                /\ clients[f].bufpos <= cfg.units_soft_max
                /\ (pulled[f] = <<>> /\ stall[f] > cfg.units_soft_max
                        => clients[f].bufpos = cfg.units_soft_max)

\* A client that pulled nothing through three renders sits on the soft limit
\* of one buffer.
C9_Witness ==
    /\ cfg.units_soft_max = 1
    /\ th["prod"].pc = "idle"
    /\ InTable(1)
    /\ pulled[1] = <<>>
    /\ stall[1] = 3
    /\ clients[1].bufpos = 1
    /\ Len(bufqueue) >= 2

(***************************************************************************)
(* SpecRecover: gst_multi_fd_sink_recover_client on its own.  Init draws a *)
(* queue of buffers, a client position at or past the soft limit, a policy *)
(* and a soft limit; the only step applies the function.                   *)
(***************************************************************************)
ProbeQueues ==
    UNION {[1..n -> {DataBuf(0, d, 1, NONE) : d \in BOOLEAN}] : n \in 1..MaxProbeLen}

ProbeInputs ==
    {[op |-> "in", q |-> q, bufpos |-> b, policy |-> p, soft_max |-> m] :
        q \in ProbeQueues, b \in 0..MaxProbeLen, p \in PolicySet, m \in 1..MaxProbeSoft}

InitRecover ==
    /\ InitState(DefaultCfg, DefaultEnv)
    /\ probe \in {i \in ProbeInputs : i.bufpos >= i.soft_max /\ i.bufpos <= Len(i.q)}

ApplyRecover ==
    /\ probe.op = "in"
    /\ probe' = [op |-> "out", q |-> probe.q, bufpos |-> probe.bufpos,
                  policy |-> probe.policy, soft_max |-> probe.soft_max,
                  result |-> recover_client(probe.q, probe.bufpos, probe.policy,
                                            "Buffers", probe.soft_max)]
    /\ UNCHANGED <<cfg, env, run, fdopen, refs, bufqueue, rendered, streamheader,
                   previous_buffer_in_caps, caps, clients, list, hash, poll,
                   clients_cookie, now, lock, th, ninst, sig, pulled, wire, stall>>

NextRecover == ApplyRecover

SpecRecover == InitRecover /\ [][NextRecover]_vars

\* No buffer of q from index min(len - 1, soft_max - 1) down to 0 is a keyframe.
NoKeyframeBelowSoft(q, m) ==
    \A i \in 0..MinOf(Len(q) - 1, m - 1) : ~is_sync_frame(At(q, i))

ReadEnv ==
    [DefaultEnv EXCEPT !.renders = 1, !.events = {"read"},
                       !.avails = 1..MaxAvail, !.nreads = -1..MaxAvail]

InitRead == InitWith(DefaultCfg, ReadEnv)

NextRead ==
    \/ HostAdd
    \/ Render
    \/ ProdWalk
    \/ Wait
    \/ IOLock
    \/ Service
    \/ Read
    \/ Write
    \/ Unlink
    \/ Finish

SpecRead == InitRead /\ [][NextRead]_vars

\* C11: the I/O thread holds the clients lock for a bounded time whatever the
\* peers do, so that a render waiting for the lock finishes: while it serves a
\* readable client under the lock it calls read() at most once per byte the
\* peer had sent, also when the peer's reads fail.
C11_LockHeldBounded ==
    (th["io"].pc = "rd" /\ lock = "io") => th["io"].reads < th["io"].avail0

(***************************************************************************)
(* SpecFlush: two descriptors, the hard limit at one buffer, the host      *)
(* adding, removing and flushing clients, peers that take a write wholly   *)
(* or in part.                                                             *)
(***************************************************************************)
FlushCfg == [DefaultCfg EXCEPT !.units_max = 1]

FlushEnv ==
    [DefaultEnv EXCEPT !.renders = FlushRenders, !.sizes = {2},
                       !.outcomes = {"full", "partial"}, !.observe = {"wire"}]

InitFlush == InitWith(FlushCfg, FlushEnv)

NextFlush ==
    \/ HostAdd
    \/ HostRemove
    \/ HostRemoveFlush
    \/ Render
    \/ ProdWalk
    \/ Wait
    \/ IOLock
    \/ Service
    \/ Write
    \/ Unlink
    \/ Finish

SpecFlush == InitFlush /\ [][NextFlush]_vars

RECURSIVE Reverse(_)
Reverse(q) == IF q = <<>> THEN <<>> ELSE Append(Reverse(Tail(q)), Head(q))

\* the bytes still to write of a sending list whose head is written up to off
RestBytes(l, off) ==
    IF l = <<>> THEN <<>>
    ELSE Bytes(Head(l), off, Head(l).size - off) \o Concat(Tail(l))

\* What a flushed client is owed: the rest of its sending list, then the
\* buffers that were at indices bufpos down to 0 when remove_flush was called.
FlushOwed(c) == RestBytes(c.flush.sending, c.flush.off) \o Concat(Reverse(c.flush.q))

FlushGot(f) == SubSeq(wire[f], clients[f].flush.k + 1, Len(wire[f]))

\* C13: a client flushed at bufpos = p that is not evicted afterwards is sent
\* what its sending list held and then the p + 1 buffers that were at indices
\* p, ..., 0 at the call, in that order, and no buffer rendered later;
\* flushcount never goes below 0 and at its removal all of them were sent.
C13_FlushSendsQueuedOnly ==
    \A f \in Fds :
        (InTable(f) /\ clients[f].flushcount # -1) =>
            /\ clients[f].flushcount >= 0
            /\ clients[f].status \in {"Flushing", "Removed"} =>
                  IsPrefix(FlushGot(f), FlushOwed(clients[f]))
            /\ clients[f].status = "Removed" => FlushGot(f) = FlushOwed(clients[f])

\* C14: remove on a client with status OK sets the status Removed and runs the
\* removal procedure at once, its sending list being dropped and not sent;
\* remove on a client with another status or on an unknown descriptor changes
\* no state and emits no notification.
C14_RemoveOnlyWhenOK ==
    [][\A f \in Fds :
          \* a call of the host other than remove_flush changes the client or
          \* the poll entry of the registered descriptor f
          (th["host"].pc = "idle" /\ lock = "free" /\ lock' = "free"
              /\ th'["prod"] = th["prod"] /\ th'["io"] = th["io"]
              /\ hash' = hash /\ f \in hash
              /\ ~(clients[f].status = "OK" /\ clients'[f].status = "Flushing")
              /\ (clients'[f] # clients[f] \/ poll'[f] # poll[f]))
            => /\ clients[f].status = "OK"
               /\ clients'[f].status = "Removed"
               /\ clients'[f].currently_removing
               /\ clients'[f].sending = <<>>
               /\ ~poll'[f].in
               /\ th'["host"].pc = "rm1" /\ th'["host"].rmfd = f
               /\ sig' = sig /\ wire' = wire]_vars

\* A remove dropped the second byte of a buffer written in part, and a remove
\* of the flushing client of the other descriptor has been possible since.
C14_Witness ==
    \E f, g \in Fds :
        /\ th["host"].pc = "rm1" /\ th["host"].rmfd = f
        /\ clients[f].status = "Removed"
        /\ clients[f].bufoffset = 1
        /\ clients[f].sending = <<>>
        /\ g # f /\ g \in hash /\ clients[g].status = "Flushing"

(***************************************************************************)
(* SpecAdd: the host calls add and add_full with every combination of      *)
(* burst units and values, for a descriptor that is new or registered,     *)
(* while one buffer is rendered and written in one or two writes.          *)
(***************************************************************************)
AddCfgs ==
    {DefaultCfg,
     [DefaultCfg EXCEPT !.def_burst_unit = "Buffers", !.def_burst_value = MaxBurst]}

AddKinds ==
    {[sync |-> "Latest", min_unit |-> u, min_value |-> a, max_unit |-> v,
      max_value |-> b] :
        u \in {"Buffers"}, v \in {"Buffers", "Bytes"},
        a \in {-1} \cup 1..MaxBurst, b \in {-1} \cup 1..MaxBurst}

AddEnv ==
    [DefaultEnv EXCEPT !.fds = {1}, !.renders = 1, !.sizes = {2},
                       !.outcomes = {"full", "partial"}, !.kinds = AddKinds]

InitAdd == \E c \in AddCfgs : InitState(c, AddEnv) /\ probe = NoCall

NextAdd ==
    \/ HostAddCalled
    \/ HostAddFull
    \/ Render
    \/ ProdWalk
    \/ Wait
    \/ IOLock
    \/ Service
    \/ Write

SpecAdd == InitAdd /\ [][NextAdd]_vars

\* The step is a call of add or add_full.
IsAddCall == probe'.n = probe.n + 1

\* The client table, the poll set and the cookie are as before the step.
TableUnchanged ==
    /\ clients' = clients /\ hash' = hash /\ list' = list
    /\ poll' = poll /\ clients_cookie' = clients_cookie

\* The step emitted client-removed with the status Duplicate and nothing else.
EmittedDuplicate ==
    /\ ninst' = ninst + 1
    /\ sig' = [sig EXCEPT ![ninst + 1] =
                  [fd |-> probe'.fd, added |-> 0, removed |-> 1, fdrem |-> 0,
                   status |-> "Duplicate", at |-> Len(rendered)]]

\* the limits the call was made with are ones add_full rejects
LimitsRejected(k) ==
    /\ k.min_unit = k.max_unit
    /\ k.max_value # -1 /\ k.min_value # -1
    /\ k.max_value < k.min_value

\* C15 as stated: add or add_full of a registered descriptor leaves the
\* existing client, the hash, the list, the poll set and the cookie unchanged
\* and emits client-removed with status Duplicate, never client-added.
C15_DuplicateEmitsRemoved ==
    [][(IsAddCall /\ probe'.fd \in hash) => (TableUnchanged /\ EmittedDuplicate)]_vars

\* C15 as the code has it: add or add_full of a registered descriptor leaves
\* the existing client, the hash, the list, the poll set and the cookie
\* unchanged and never emits client-added; it emits client-removed with status
\* Duplicate unless add_full rejects the limits, and then it emits nothing.
C15_DuplicateLeavesClient ==
    [][(IsAddCall /\ probe'.fd \in hash) =>
          /\ TableUnchanged
          /\ IF LimitsRejected(probe'.kind)
             THEN sig' = sig /\ ninst' = ninst
             ELSE EmittedDuplicate]_vars

\* add was called for a registered descriptor whose client had a buffer
\* written in part, and the call was answered with Duplicate.
C15_Witness ==
    /\ probe.op = "add"
    /\ probe.fd \in hash
    /\ clients[probe.fd].bufoffset = 1
    /\ clients[probe.fd].sending # <<>>
    /\ ninst > 0 /\ sig[ninst].status = "Duplicate" /\ sig[ninst].fd = probe.fd

\* C16: add_full with equal units, both values other than -1 and the maximum
\* below the minimum is rejected: the client table, the poll set and the
\* cookie stay as they are and no notification is emitted; add with the
\* element's defaults is never rejected for its limits.
C16_WrongLimitsRejected ==
    [][IsAddCall =>
          /\ LimitsRejected(probe'.kind) =>
                (TableUnchanged /\ sig' = sig /\ ninst' = ninst)
          /\ probe'.op = "add" =>
                /\ ninst' = ninst + 1
                /\ probe'.fd \notin hash =>
                      (probe'.fd \in hash' /\ sig'[ninst'].added = 1)]_vars

\* add_full with a minimum of two and a maximum of one buffer was called
\* twice for a new descriptor and rejected, a buffer having been rendered.
C16_Witness ==
    /\ probe.op = "add_full"
    /\ probe.n = 2
    /\ probe.kind.min_unit = "Buffers" /\ probe.kind.max_unit = "Buffers"
    /\ probe.kind.min_value = 2 /\ probe.kind.max_value = 1
    /\ probe.fd \notin hash
    /\ ninst = 0
    /\ bufqueue # <<>>

(***************************************************************************)
(* SpecStats: two descriptors, the hard limit at one buffer and a timeout, *)
(* the host adding and removing clients, peers that take a write wholly or *)
(* in part or close; the statistics of the clients are kept.               *)
(***************************************************************************)
StatsCfg == [DefaultCfg EXCEPT !.units_max = 1, !.timeout = 1]

StatsEnv ==
    [DefaultEnv EXCEPT !.fds = {1}, !.renders = StatsRenders, !.sizes = {2},
                       !.stamps = {TRUE},
                       !.outcomes = {"full", "partial"}, !.events = {"closed"},
                       !.observe = {"stats"}]

InitStats == InitWith(StatsCfg, StatsEnv)

NextStats ==
    \/ HostAdd
    \/ HostRemove
    \/ Render
    \/ ProdWalk
    \/ Wait
    \/ IOLock
    \/ Service
    \/ Write
    \/ Unlink
    \/ Finish
    \/ Tick

SpecStats == InitStats /\ [][NextStats]_vars

\* C17: as long as the removal procedure has not come back from emitting
\* client-removed, the client is in the hash and in the list, get_stats gives
\* the eight values with the disconnect time stamped, the descriptor is out
\* of the poll set and the sending list is released.
C17_StatsAtClientRemoved ==
    \A t \in Threads :
        th[t].pc = "rm1" =>
            /\ th[t].rmfd \in hash
            /\ InList(list, th[t].rmfd)
            /\ clients[th[t].rmfd].inst = th[t].rminst
            /\ Len(get_stats(th[t].rmfd)) = 8
            /\ get_stats(th[t].rmfd)[3] # 0
            /\ get_stats(th[t].rmfd)[3] = clients[th[t].rmfd].disconnect_time
            /\ get_stats(th[t].rmfd)[4] = get_stats(th[t].rmfd)[3] - get_stats(th[t].rmfd)[2]
            /\ ~poll[th[t].rmfd].in
            /\ clients[th[t].rmfd].sending = <<>>

\* The render is about to emit client-removed for a client it found too slow,
\* connected for two ticks, after one byte of a buffer with a timestamp.
C17_Witness ==
    /\ th["prod"].pc = "rm1"
    /\ clients[th["prod"].rmfd].status = "Slow"
    /\ get_stats(th["prod"].rmfd)[1] = 1
    /\ get_stats(th["prod"].rmfd)[4] = 2
    /\ get_stats(th["prod"].rmfd)[7] = 1


(***************************************************************************)
(* SpecTrim: two descriptors, the burst sync method and a hard limit and a *)
(* burst of TrimRenders - 1 one-byte buffers, so that the render whose     *)
(* queue holds TrimRenders buffers evicts the oldest client while a client *)
(* in front of it in the list is new.                                      *)
(***************************************************************************)
TrimCfg ==
    [DefaultCfg EXCEPT !.units_max = TrimRenders - 1, !.def_sync_method = "Burst",
                       !.def_burst_unit = "Bytes",
                       !.def_burst_value = TrimRenders - 1]

TrimEnv == [DefaultEnv EXCEPT !.renders = TrimRenders, !.outcomes = {"full", "eagain"}]

InitTrim == InitWith(TrimCfg, TrimEnv)

NextTrim ==
    \/ HostAdd
    \/ Render
    \/ ProdWalk
    \/ Wait
    \/ IOLock
    \/ Service
    \/ Write
    \/ Unlink
    \/ Finish

SpecTrim == InitTrim /\ [][NextTrim]_vars

\* the step of render that trims the queue and releases the lock
TrimStep == th["prod"].pc = "walk" /\ th'["prod"].pc = "idle"

\* the clients that survive the render: in the table and not being removed
Survives(f) == f \in hash /\ InList(list, f) /\ ~clients[f].currently_removing

\* C18: the step of a render that trims the queue leaves a prefix of the queue
\* (buffers go from the tail only), and every index it removes is strictly
\* greater than the bufpos of every client that survives the render.
C18_TrimAboveEveryClient ==
    [][TrimStep =>
          /\ IsPrefix(bufqueue', bufqueue)
          /\ \A f \in Fds :
                 Survives(f) =>
                     \A i \in Len(bufqueue')..(Len(bufqueue) - 1) :
                         i > clients[f].bufpos]_vars


(***************************************************************************)
(* SpecFloor: no client at all; the producer renders buffers of one or two *)
(* bytes, with or without a timestamp, under every combination of the     *)
(* minimum properties buffers-min, bytes-min and time-min.                 *)
(***************************************************************************)
FloorCfgs ==
    {[DefaultCfg EXCEPT !.buffers_min = b, !.bytes_min = y, !.time_min = t] :
         b \in {-1, MaxFloor}, y \in {-1, MaxFloor}, t \in {-1, MaxFloor - 1}}

FloorEnv ==
    [DefaultEnv EXCEPT !.fds = {}, !.renders = FloorRenders, !.sizes = {1, 2},
                       !.stamps = {FALSE, TRUE}]

InitFloor == \E c \in FloorCfgs : InitWith(c, FloorEnv)

NextFloor ==
    \/ Render
    \/ ProdWalk

SpecFloor == InitFloor /\ [][NextFloor]_vars

\* the bytes of a sequence of buffers
RECURSIVE QueueBytes(_)
QueueBytes(q) == IF q = <<>> THEN 0 ELSE Head(q).size + QueueBytes(Tail(q))

\* the time between the oldest and the newest timestamp of a sequence
QueueSpan(q) ==
    LET T == {q[k].ts : k \in 1..Len(q)} \ {NONE}
    IN IF T = {} THEN 0
       ELSE (CHOOSE a \in T : \A b \in T : a >= b) - (CHOOSE a \in T : \A b \in T : a <= b)

\* C19: with no client, between two renders the queue holds at least
\* buffers_min buffers once that many were rendered, at least bytes_min bytes
\* once that many were rendered, and spans time_min once the rendered
\* buffers span it.
C19_MinimumKept ==
    (th["prod"].pc = "idle" /\ hash = {}) =>
        /\ (cfg.buffers_min # -1 /\ Len(rendered) >= cfg.buffers_min)
               => Len(bufqueue) >= cfg.buffers_min
        /\ (cfg.bytes_min # -1 /\ QueueBytes(rendered) >= cfg.bytes_min)
               => QueueBytes(bufqueue) >= cfg.bytes_min
        /\ (cfg.time_min # -1 /\ QueueSpan(rendered) >= cfg.time_min)
               => QueueSpan(bufqueue) >= cfg.time_min


(***************************************************************************)
(* The three containers of the client table, in Spec.                      *)
(***************************************************************************)
\* the removal of f has taken it out of the poll set and not yet unlinked it
RemovalUnderWay(f) ==
    /\ clients[f].currently_removing
    /\ \E t \in Threads : th[t].pc = "rm1" /\ th[t].rmfd = f

\* C20 as stated: whenever the clients lock is free, a descriptor is in the
\* hash, in the list and in the poll set, or in none of them.
C20_ThreeContainersAgree ==
    lock = "free" =>
        \A f \in Fds : /\ (f \in hash) = InList(list, f)
                       /\ (f \in hash) = poll[f].in

\* C20: whenever the clients lock is free, the hash and the list hold the same
\* descriptors, every descriptor of the poll set is in the hash, and a
\* descriptor of the hash is in the poll set unless its removal is under way.
C20_ContainersAgreeButRemoval ==
    lock = "free" =>
        \A f \in Fds : /\ (f \in hash) = InList(list, f)
                       /\ poll[f].in => f \in hash
                       /\ (f \in hash /\ ~poll[f].in) => RemovalUnderWay(f)

\* The host's remove has released the lock to emit client-removed: the
\* descriptor is in the hash and in the list and out of the poll set, while
\* another client is in all three.
C20_Witness ==
    /\ lock = "free"
    /\ th["host"].pc = "rm1"
    /\ th["host"].rmfd \in hash
    /\ InList(list, th["host"].rmfd)
    /\ ~poll[th["host"].rmfd].in
    /\ \E g \in hash : g # th["host"].rmfd /\ InList(list, g) /\ poll[g].in


(***************************************************************************)
(* SpecPoll: one descriptor, either sync method NextKeyframe or a soft     *)
(* limit of two buffers recovered by ResyncLatest; key and delta buffers,  *)
(* and peers that take a whole buffer or nothing (EAGAIN).                 *)
(***************************************************************************)
PollCfgs ==
    {[DefaultCfg EXCEPT !.def_sync_method = "NextKeyframe"],
     [DefaultCfg EXCEPT !.units_soft_max = 2, !.recover_policy = "ResyncLatest"]}

PollEnv ==
    [DefaultEnv EXCEPT !.fds = {1}, !.renders = PollRenders,
                       !.deltas = {FALSE, TRUE}, !.outcomes = {"full", "eagain"}]

InitPoll == \E c \in PollCfgs : InitWith(c, PollEnv)

NextPoll ==
    \/ HostAdd
    \/ HostRemove
    \/ Render
    \/ ProdWalk
    \/ Wait
    \/ IOLock
    \/ Service
    \/ Write
    \/ Unlink
    \/ Finish

SpecPoll == InitPoll /\ [][NextPoll]_vars

WriteInterest(f) == poll[f].in /\ poll[f].w

\* C21 as stated: whenever the clients lock is free, a registered client is
\* at bufpos -1 exactly when the write interest of its descriptor is off.
C21_WaitingIffNotPolled ==
    lock = "free" =>
        \A f \in hash : (clients[f].bufpos = -1) = ~WriteInterest(f)

\* C21: whenever the clients lock is free, a registered client that is not
\* being removed and has a position in the queue or bytes left to send has
\* the write interest of its descriptor on, so a client whose write interest
\* is off is at bufpos -1 with nothing left to send.
C21_PositionedIsPolled ==
    lock = "free" =>
        \A f \in hash :
            (~clients[f].currently_removing
                 /\ (clients[f].bufpos >= 0 \/ clients[f].sending # <<>>))
                => WriteInterest(f)

\* A client has pulled the second of two buffers, its last, and the peer
\* took none of it: it is at bufpos -1 with the buffer left to send and the
\* write interest on.
C21_Witness ==
    /\ lock = "free"
    /\ \E f \in hash :
           /\ clients[f].bufpos = -1 /\ clients[f].sending # <<>>
           /\ clients[f].sending[1].id = 2
           /\ ~clients[f].currently_removing /\ WriteInterest(f)


(***************************************************************************)
(* SpecRefs: one descriptor, a hard limit of one buffer, caps that carry   *)
(* stream-headers, header-flagged and data buffers of two bytes, and peers *)
(* that take a buffer whole or fail.                                       *)
(***************************************************************************)
RefCfg == [DefaultCfg EXCEPT !.units_max = 1]

RefEnv ==
    [DefaultEnv EXCEPT !.fds = {1}, !.renders = RefRenders, !.sizes = {2},
                       !.outcomes = {"full", "error"},
                       !.caps = {[cid |-> 2, sh |-> 1]}, !.headers = MaxHeaders,
                       !.observe = {"refs"}]

InitRefs == InitWith(RefCfg, RefEnv)

NextRefs ==
    \/ HostAdd
    \/ Render
    \/ RenderHdr
    \/ ProdWalk
    \/ Wait
    \/ IOLock
    \/ Service
    \/ Write
    \/ Unlink
    \/ Finish

SpecRefs == InitRefs /\ [][NextRefs]_vars

\* the occurrences of b in the sequence l
Occurrences(l, b) == Cardinality({k \in 1..Len(l) : l[k] = b})

\* the sending lists of the client structures that exist
SendingOf(f) == IF clients[f].status = "None" THEN <<>> ELSE clients[f].sending

RECURSIVE SumOver(_, _)
SumOver(S, b) ==
    IF S = {} THEN 0
    ELSE LET f == CHOOSE x \in S : TRUE
         IN Occurrences(SendingOf(f), b) + SumOver(S \ {f}, b)

\* the references the containers of the sink account for
Held(b) ==
    Occurrences(bufqueue, b) + Occurrences(streamheader, b) + SumOver(Fds, b)

\* every buffer the sink ever referenced or holds somewhere
KnownBuffers ==
    DOMAIN refs \cup {bufqueue[k] : k \in 1..Len(bufqueue)}
                \cup {streamheader[k] : k \in 1..Len(streamheader)}
                \cup UNION {{SendingOf(f)[k] : k \in 1..Len(SendingOf(f))} : f \in Fds}

\* C22: the references the sink has taken and not released on a buffer are
\* one if it is in the global queue, one if it is in the stream-header set and
\* one for each occurrence in a sending list; no buffer is twice in the queue.
C22_ReferencesBalance ==
    \A b \in KnownBuffers :
        /\ b \in DOMAIN refs
        /\ refs[b] = Held(b)
        /\ Occurrences(bufqueue, b) <= 1

\* The client is sending a stream-header of the caps and has the newest
\* buffer queued behind it (two references with the one of the queue), the
\* stream-header set holds a header-flagged buffer and the first data buffer
\* has been trimmed and released.
C22_Witness ==
    /\ \E b \in DOMAIN refs : b.kind = "data" /\ refs[b] = 2
    /\ \E b \in DOMAIN refs : b.kind = "data" /\ refs[b] = 0
    /\ \E b \in DOMAIN refs : b.kind = "hdr" /\ refs[b] = 1
    /\ \E b \in DOMAIN refs : b.kind = "header" /\ refs[b] = 1
    /\ \E b \in DOMAIN refs : b.kind = "header" /\ refs[b] = 0
    /\ \E f \in hash : Len(clients[f].sending) = 2

(***************************************************************************)
(* SpecNext: one client with sync method NextKeyframe, keyframes and delta *)
(* buffers, caps with a stream-header, a host that adds the client and may *)
(* ask to flush it.                                                        *)
(***************************************************************************)
NextCfg == [DefaultCfg EXCEPT !.def_sync_method = "NextKeyframe"]

NextEnv ==
    [DefaultEnv EXCEPT !.fds = {1}, !.adds = 1, !.renders = NextRenders,
                       !.deltas = {FALSE, TRUE},
                       !.caps = {[cid |-> 2, sh |-> 1]}, !.observe = {"wire"}]

InitNext == InitWith(NextCfg, NextEnv)

NextNext ==
    \/ HostAdd
    \/ HostRemoveFlush
    \/ Render
    \/ ProdWalk
    \/ Wait
    \/ IOLock
    \/ Service
    \/ Write
    \/ Unlink
    \/ Finish

SpecNext == InitNext /\ [][NextNext]_vars

\* a client of sync method NextKeyframe that has no position yet and no
\* keyframe at an index up to its bufpos
NoKeyframeYet(f) ==
    /\ f \in hash
    /\ clients[f].sync_method = "NextKeyframe"
    /\ clients[f].new_connection
    /\ find_prev_syncframe(bufqueue, clients[f].bufpos) = -1

\* the write handler runs for f on a client that is not sending
WriteHandled(f) ==
    /\ th["io"].pc = "wr"
    /\ th["io"].wfd = f
    /\ th'["io"] # th["io"]
    /\ clients[f].sending = <<>>

\* C23 as stated: a client with sync method NextKeyframe for which no
\* non-delta buffer exists at any queue index <= its bufpos has received no
\* byte, and the write handler leaves it waiting: bufpos = -1, new_connection
\* still set, write-interest disabled.
C23_NoKeyframeNoByte ==
    /\ [](\A f \in Fds : NoKeyframeYet(f) =>
             wire[f] = <<>> /\ clients[f].sending = <<>>)
    /\ [][\A f \in Fds : (NoKeyframeYet(f) /\ WriteHandled(f)) =>
             /\ clients'[f].bufpos = -1
             /\ clients'[f].new_connection
             /\ ~WriteInterest(f)'
             /\ wire'[f] = <<>>]_vars

\* C23 for a client that the host has not asked to flush: its status is OK and
\* the write handler does not run in flushing mode.
C23_NoKeyframeNoByteUnlessFlushing ==
    /\ [](\A f \in Fds : (NoKeyframeYet(f) /\ clients[f].status = "OK") =>
             wire[f] = <<>> /\ clients[f].sending = <<>>)
    /\ [][\A f \in Fds :
             (NoKeyframeYet(f) /\ WriteHandled(f) /\ ~th["io"].flushing) =>
                 /\ clients'[f].bufpos = -1
                 /\ clients'[f].new_connection
                 /\ ~WriteInterest(f)'
                 /\ wire'[f] = <<>>]_vars

\* A client added before the first render waits, not polled for writing and
\* without a byte received, after three delta buffers were rendered and the
\* write handler found no keyframe among them.
C23_Witness ==
    /\ NoKeyframeYet(1)
    /\ clients[1].status = "OK"
    /\ sig[clients[1].inst].at = 0
    /\ clients[1].bufpos = -1
    /\ ~WriteInterest(1)
    /\ Len(bufqueue) = 3
    /\ \A k \in 1..3 : bufqueue[k].delta
    /\ th["io"].pc = "wait"
    /\ th["prod"].pc = "idle"
    /\ wire[1] = <<>>

(***************************************************************************)
(* SpecBurst: one client with sync method LatestKeyframe added at any point*)
(* of a stream of keyframes and delta buffers whose caps carry a           *)
(* stream-header; no limit, a peer that takes every write.                 *)
(***************************************************************************)
BurstCfg == [DefaultCfg EXCEPT !.def_sync_method = "LatestKeyframe"]

BurstEnv ==
    [DefaultEnv EXCEPT !.fds = {1}, !.adds = 1, !.renders = BurstRenders,
                       !.deltas = {FALSE, TRUE},
                       !.caps = {[cid |-> 2, sh |-> 1]}, !.observe = {"wire"}]

InitBurst == InitWith(BurstCfg, BurstEnv)

NextBurst ==
    \/ HostAdd
    \/ Render
    \/ ProdWalk
    \/ Wait
    \/ IOLock
    \/ Service
    \/ Write

SpecBurst == InitBurst /\ [][NextBurst]_vars

\* the render number of the newest keyframe among the first n renders, 0 if none
RECURSIVE LastKey(_, _)
LastKey(r, n) ==
    IF n = 0 THEN 0 ELSE IF ~r[n].delta THEN n ELSE LastKey(r, n - 1)

\* the stream-headers of the caps, then the buffers rendered from number k on
BurstFrom(k) ==
    Concat(ShArray(caps.sh)) \o Concat(SubSeq(rendered, k, Len(rendered)))

Comparable(a, b) == IsPrefix(a, b) \/ IsPrefix(b, a)

\* the client of f was added when the queue held keyframe K, then D1, D2
AddedAfterKDD(f) ==
    /\ f \in hash
    /\ sig[clients[f].inst].at = 3
    /\ ~rendered[1].delta
    /\ rendered[2].delta
    /\ rendered[3].delta

KeepCfgs ==
    {[DefaultCfg EXCEPT !.def_sync_method = "LatestKeyframe",
                        !.units_soft_max = s, !.units_max = m] :
        s \in {-1, 2}, m \in {-1, 3}}

KeepEnv ==
    [DefaultEnv EXCEPT !.fds = {1}, !.adds = 1, !.renders = KeepRenders,
                       !.deltas = {FALSE, TRUE}, !.outcomes = {"full", "eagain"}]

InitKeep == \E c \in KeepCfgs : InitWith(c, KeepEnv)

NextKeep ==
    \/ HostAdd
    \/ Render
    \/ ProdWalk
    \/ Wait
    \/ IOLock
    \/ Service
    \/ Write
    \/ Unlink
    \/ Finish

SpecKeep == InitKeep /\ [][NextKeep]_vars

\* C25: with default sync method LatestKeyframe, once a non-delta buffer has
\* been queued the queue holds at least one non-delta buffer after every
\* render, whatever units_soft_max, units_max and the clients are.
C25_KeyframeKept ==
    (th["prod"].pc = "idle" /\ \E k \in 1..Len(rendered) : ~rendered[k].delta)
        => \E i \in 1..Len(bufqueue) : ~bufqueue[i].delta

(***************************************************************************)
(* SpecLimits: gst_multi_fd_sink_new_client on its own for sync method     *)
(* Burst with both limits in bytes.  Init draws a queue of buffers of 500  *)
(* or 1000 bytes and the two limits; the only step applies the function.   *)
(***************************************************************************)
BurstSizes == {500, 1000}
BurstValues == {0, 500, 1000, 1500, 2000, 2500}

BurstQueues ==
    UNION {[1..n -> {DataBuf(0, TRUE, z, NONE) : z \in BurstSizes}] : n \in 1..MaxBurstLen}

BurstInputs ==
    {[op |-> "in", q |-> q, min |-> a, max |-> b] :
        q \in BurstQueues, a \in BurstValues, b \in BurstValues}

BurstKind(i) ==
    [sync |-> "Burst", min_unit |-> "Bytes", min_value |-> i.min,
     max_unit |-> "Bytes", max_value |-> i.max]

\* add_full takes the client only when the maximum is not below the minimum
InitLimits ==
    /\ InitState(DefaultCfg, DefaultEnv)
    /\ probe \in {i \in BurstInputs : ~wrong_limits(BurstKind(i))}

ApplyBurst ==
    /\ probe.op = "in"
    /\ probe' = [op |-> "out", q |-> probe.q, min |-> probe.min, max |-> probe.max,
                  lim |-> count_burst_unit(probe.q, "Bytes", probe.min,
                                           "Bytes", probe.max),
                  result |-> new_client(probe.q,
                                 [client_init(1, BurstKind(probe), 0, 1)
                                    EXCEPT !.bufpos = 0]).result]
    /\ UNCHANGED <<cfg, env, run, fdopen, refs, bufqueue, rendered, streamheader,
                   previous_buffer_in_caps, caps, clients, list, hash, poll,
                   clients_cookie, now, lock, th, ninst, sig, pulled, wire, stall>>

NextLimits == ApplyBurst

SpecLimits == InitLimits /\ [][NextLimits]_vars

\* the sizes of the buffers 0..i of q summed
RECURSIVE SumTo(_, _)
SumTo(q, i) == IF i < 0 THEN 0 ELSE At(q, i).size + SumTo(q, i - 1)

\* the indices at which the newest buffers amount to at least min bytes
Reaching(q, min) == {i \in 0..(Len(q) - 1) : SumTo(q, i) >= min}

FourOf500 == [k \in 1..4 |-> DataBuf(0, TRUE, 500, NONE)]

\* C26: for sync method Burst with both limits in bytes, min_idx is the
\* smallest index i such that the sizes of buffers 0..i sum to at least
\* burst_min and the start index is min_idx, or max(max_idx - 1, 0) when
\* max_idx <= min_idx; sizes [500, 500, 500, 500], burst_min 1000 and
\* burst_max 2000 give min_idx 1, max_idx 3 and start index 1.
C26_BurstStartIndex ==
    probe.op = "out" =>
        /\ Reaching(probe.q, probe.min) # {} =>
              /\ probe.lim.min_idx \in Reaching(probe.q, probe.min)
              /\ \A i \in Reaching(probe.q, probe.min) : probe.lim.min_idx <= i
              /\ probe.result = IF probe.lim.max_idx <= probe.lim.min_idx
                                THEN MaxOf(probe.lim.max_idx - 1, 0)
                                ELSE probe.lim.min_idx
        /\ (probe.q = FourOf500 /\ probe.min = 1000 /\ probe.max = 2000) =>
              /\ probe.lim.min_idx = 1
              /\ probe.lim.max_idx = 3
              /\ probe.result = 1

\* The function was applied to four buffers of 500 bytes with limits 1000 and
\* 2000 and answered 1.
C26_Witness ==
    /\ probe.op = "out"
    /\ probe.q = FourOf500
    /\ probe.min = 1000
    /\ probe.max = 2000
    /\ probe.result = 1

\* The maximum is reached no later than the minimum and takes the start down.
C26_WitnessCapped ==
    /\ probe.op = "out"
    /\ Reaching(probe.q, probe.min) # {}
    /\ probe.lim.max_idx <= probe.lim.min_idx
    /\ probe.lim.min_idx = 2
    /\ probe.result = 1

(***************************************************************************)
(* SpecHeaders: a producer that renders header-flagged buffers, up to two  *)
(* in a row, between its data buffers, and one client.                     *)
(***************************************************************************)
HeadersEnv ==
    [DefaultEnv EXCEPT !.fds = {1}, !.adds = 1, !.renders = RunRenders,
                       !.headers = MaxRun]

InitHeaders == InitWith(DefaultCfg, HeadersEnv)

NextHeaders ==
    \/ HostAdd
    \/ Render
    \/ RenderHdr
    \/ ProdWalk
    \/ Wait
    \/ IOLock
    \/ Service
    \/ Write

SpecHeaders == InitHeaders /\ [][NextHeaders]_vars

\* the most recent maximal run of consecutive header buffers, in arrival order:
\* the headers that arrived after the same data buffer as the last header
LastRun(seen) ==
    IF seen = <<>> THEN <<>>
    ELSE SelectSeq(seen, LAMBDA h : h.id \div 100 = seen[Len(seen)].id \div 100)

HeaderStep == probe' # probe

\* C27: rendering a header-flagged buffer never puts it in the global queue
\* and changes no client's bufpos; the stream-header set is at every point the
\* most recent maximal run of consecutive header buffers, in arrival order, so
\* an older header is never in the set again.
C27_SetIsLastHeaderRun ==
    /\ [](streamheader = LastRun(HeadersSeen(probe)))
    /\ [](\A i \in 1..Len(bufqueue) : bufqueue[i].kind = "data")
    /\ [][HeaderStep =>
             /\ bufqueue' = bufqueue
             /\ \A f \in Fds : clients'[f] = clients[f]]_vars

\* One header, a data buffer, then two headers: the set holds the last two,
\* while a client is positioned in the queue.
C27_Witness ==
    /\ Len(HeadersSeen(probe)) = 3
    /\ HeadersSeen(probe)[1].id = 1
    /\ Len(streamheader) = 2
    /\ streamheader[1].id = 101
    /\ streamheader[2].id = 102
    /\ \E f \in hash : clients[f].bufpos >= 0

(***************************************************************************)
(* SpecTimeout: one client, a timeout of one tick or none, a clock that    *)
(* advances between the steps, a producer that may have to wait for the    *)
(* lock after it read the clock, poll waits that expire.                   *)
(***************************************************************************)
TimeoutCfgs == {[DefaultCfg EXCEPT !.timeout = t] : t \in {0, 1}}

TimeoutEnv == [DefaultEnv EXCEPT !.fds = {1}, !.adds = 1, !.renders = IdleRenders]

InitTimeout == \E c \in TimeoutCfgs : InitWith(c, TimeoutEnv)

NextTimeout ==
    \/ HostAdd
    \/ Render
    \/ RenderClock
    \/ RenderWaited
    \/ ProdWalk
    \/ Wait
    \/ PollTimeout
    \/ IOLock
    \/ ScanLock
    \/ Scan
    \/ Service
    \/ Write
    \/ Unlink
    \/ Finish
    \/ Tick

SpecTimeout == InitTimeout /\ [][NextTimeout]_vars

\* the client of f is marked Slow by this step
TurnsSlow(f) ==
    /\ f \in hash
    /\ clients[f].status = "OK"
    /\ clients'[f].status = "Slow"

\* the last activity of the client of f is more than the timeout in the past
IdleTooLong(f) ==
    cfg.timeout > 0 /\ now - clients[f].last_activity_time > cfg.timeout

\* the walk of a render, or the scan after an expired wait, examines f having
\* read the clock at t, when the last activity was more than the timeout ago
ExaminedIdle(f, t) ==
    /\ f \in hash
    /\ clients[f].status = "OK"
    /\ ~clients[f].currently_removing
    /\ th[t].cur = f
    /\ th'[t] # th[t]
    /\ \/ t = "prod" /\ th[t].pc = "walk" /\ th[t].cookie = clients_cookie
       \/ t = "io" /\ th[t].pc = "scan"
    /\ cfg.timeout > 0
    /\ th[t].tnow - clients[f].last_activity_time > cfg.timeout

\* C28: with timeout = T > 0 a client whose last activity is more than T in
\* the past is marked Slow and removed by the next render or the next poll
\* wait that expires, and a client with now - last_activity_time <= T is never
\* removed for inactivity; with timeout = 0 no client is ever removed for
\* inactivity.
C28_RemovedIffIdleTooLong ==
    [][\A f \in Fds :
          /\ TurnsSlow(f) => IdleTooLong(f)
          /\ \A t \in {"prod", "io"} : ExaminedIdle(f, t) => TurnsSlow(f)]_vars

(***************************************************************************)
(* SpecOwn: the host adds open descriptors, removes clients and closes the *)
(* descriptors it got back; peers fail, and a hard limit of one buffer     *)
(* evicts the slow ones.                                                   *)
(***************************************************************************)
OwnCfg == [DefaultCfg EXCEPT !.units_max = 1]

OwnEnv ==
    [DefaultEnv EXCEPT !.adds = OwnAdds, !.renders = OwnRenders,
                       !.outcomes = {"full", "error"}]

InitOwn == InitWith(OwnCfg, OwnEnv)

NextOwn ==
    \/ HostAddOpen
    \/ HostRemove
    \/ HostCloses
    \/ Render
    \/ ProdWalk
    \/ Wait
    \/ IOLock
    \/ Service
    \/ Write
    \/ Unlink
    \/ Finish

SpecOwn == InitOwn /\ [][NextOwn]_vars

\* the sink takes no part in this step
SinkIdle ==
    UNCHANGED <<bufqueue, rendered, clients, list, hash, poll, clients_cookie,
                lock, th, ninst, sig>>

\* client-fd-removed is delivered for the client added as number i
FdRemovedDelivered(i) == sig'[i].fdrem = sig[i].fdrem + 1

\* C29: no operation of the sink closes a client descriptor: the open state
\* of a descriptor changes only in steps of the host, and after any removal
\* the descriptor is still open when client-fd-removed is delivered.
C29_SinkNeverCloses ==
    [][/\ fdopen' # fdopen => SinkIdle
       /\ \A i \in 1..OwnAdds :
             FdRemovedDelivered(i) => sig[i].fd \in fdopen /\ sig[i].fd \in fdopen']_vars

\* A client was evicted as too slow and another removed after an error; the
\* host got client-fd-removed for both and has closed both descriptors.
C29_Witness ==
    /\ ninst = 2
    /\ sig[1].fdrem = 1
    /\ sig[2].fdrem = 1
    /\ {sig[1].status, sig[2].status} = {"Slow", "Error"}
    /\ 1 \notin fdopen
    /\ 2 \notin fdopen

(***************************************************************************)
(* SpecSync: one client of sync method NextKeyframe, LatestKeyframe or     *)
(* BurstKeyframe (a burst of one buffer at least), keyframes and delta     *)
(* buffers, a hard limit of two buffers or none, a peer that may be        *)
(* unwritable.                                                             *)
(***************************************************************************)
SyncCfgs ==
    {[DefaultCfg EXCEPT !.def_sync_method = m, !.units_max = u,
                        !.def_burst_unit = "Buffers", !.def_burst_value = 1] :
        m \in {"NextKeyframe", "LatestKeyframe", "BurstKeyframe"}, u \in {-1, 2}}

SyncEnv ==
    [DefaultEnv EXCEPT !.fds = {1}, !.adds = 1, !.renders = SyncRenders,
                       !.deltas = {FALSE, TRUE}, !.outcomes = {"full", "eagain"},
                       !.observe = {"pulled"}]

InitSync == \E c \in SyncCfgs : InitWith(c, SyncEnv)

NextSync ==
    \/ HostAdd
    \/ Render
    \/ ProdWalk
    \/ Wait
    \/ IOLock
    \/ Service
    \/ Write
    \/ Unlink
    \/ Finish

SpecSync == InitSync /\ [][NextSync]_vars

\* the write handler ran for the new connection f and left it a new connection
StaysNew(f) ==
    /\ WriteHandled(f)
    /\ clients[f].new_connection
    /\ clients[f].bufpos >= 0
    /\ f \in hash'
    /\ clients'[f].new_connection

\* C30: for a client of sync method NextKeyframe, LatestKeyframe or
\* BurstKeyframe that is not flushing, the first data buffer pulled from the
\* queue is a keyframe, whatever the queue holds and however the renders
\* interleave; when no suitable keyframe exists the client is left with sync
\* method NextKeyframe, waiting at bufpos = -1.
C30_FirstPulledIsKeyframe ==
    /\ [](\A f \in Fds :
             pulled[f] # <<>> =>
                 /\ pulled[f][1] \in 1..Len(rendered)
                 /\ ~rendered[pulled[f][1]].delta)
    /\ [][\A f \in Fds :
             StaysNew(f) =>
                 /\ clients'[f].sync_method = "NextKeyframe"
                 /\ clients'[f].bufpos = -1
                 /\ pulled'[f] = <<>>]_vars

\* A BurstKeyframe client that found no keyframe was downgraded and then
\* pulled the keyframe rendered second, and the delta buffer after it.
C30_Witness ==
    /\ cfg.def_sync_method = "BurstKeyframe"
    /\ 1 \in hash
    /\ clients[1].sync_method = "NextKeyframe"
    /\ sig[clients[1].inst].at = 0
    /\ pulled[1] = <<2, 3>>
    /\ rendered[1].delta
    /\ ~rendered[2].delta

(***************************************************************************)
(* SpecCookie: two clients, a timeout of one tick, a host that adds,       *)
(* removes and closes descriptors it left with the sink, poll waits that   *)
(* expire or fail on a closed descriptor, a producer that evicts.          *)
(***************************************************************************)
CookieCfg == [DefaultCfg EXCEPT !.timeout = 1]

CookieEnv == [DefaultEnv EXCEPT !.adds = CookieAdds, !.renders = CookieRenders]

InitCookie == InitWith(CookieCfg, CookieEnv)

NextCookie ==
    \/ HostAddOpen
    \/ HostRemove
    \/ HostClosesHeld
    \/ Render
    \/ ProdWalk
    \/ Wait
    \/ PollTimeout
    \/ PollBadFd
    \/ IOLock
    \/ ScanLock
    \/ BadLock
    \/ Scan
    \/ BadStep
    \/ Service
    \/ Write
    \/ Unlink
    \/ Finish
    \/ Tick

SpecCookie == InitCookie /\ [][NextCookie]_vars

\* the thread is inside one of the loops over the client list, holding the lock
Walking(t) ==
    /\ lock = t
    /\ th[t].pc \in {"walk", "svc", "bad", "scan"}

\* the loop of t compares the cookie it snapshot before it uses its cursor,
\* and will find it changed
WillRestart(t) ==
    /\ th[t].pc \in {"walk", "svc", "bad"}
    /\ th[t].cookie # clients_cookie

\* C31: no loop over the client list (the walk of render, the scan for bad
\* descriptors, the service pass, the scan after an expired wait) follows a
\* link to a client that another thread removed and freed while the lock was
\* released: a loop whose cursor dangles restarts from the head.
C31_NoFreedLinkFollowed ==
    \A t \in {"prod", "io"} :
        (Walking(t) /\ th[t].cur = Dangling) => WillRestart(t)

\* the scan after an expired wait is about to read a freed link
C31_ScanFollowsFreedLink ==
    /\ lock = "io"
    /\ th["io"].pc = "scan"
    /\ th["io"].cur = Dangling

(***************************************************************************)
(* SpecBump: the configuration of SpecWalk (three descriptors, a timeout   *)
(* of one tick, one render), recording which clients the walk of a render  *)
(* incremented.                                                            *)
(***************************************************************************)
BumpEnv ==
    [DefaultEnv EXCEPT !.fds = Fds, !.adds = BumpAdds, !.renders = BumpRenders,
                       !.observe = {"bumps"}]

InitBump == InitWith(WalkCfg, BumpEnv)

NextBump ==
    \/ HostAdd
    \/ Render
    \/ ProdWalk
    \/ Wait
    \/ IOLock
    \/ Service
    \/ Write
    \/ Unlink
    \/ Finish
    \/ Tick

SpecBump == InitBump /\ [][NextBump]_vars

\* how many times the walk of the render under way incremented client i
BumpsOf(i) == Cardinality({k \in DOMAIN th["prod"].bumps : th["prod"].bumps[k] = i})

\* the client of f was registered before the render under way began
HereBefore(f) ==
    /\ f \in hash
    /\ sig[clients[f].inst].at < Len(rendered)

\* the walk of the render ends with this step
WalkEnds == th["prod"].pc = "walk" /\ th'["prod"].pc = "idle"

\* C32: a render of a data buffer increments the bufpos of every client that
\* is in the table throughout the render exactly once, also when the walk
\* restarts from the head after it evicted another client.
C32_BumpedExactlyOnce ==
    /\ [](\A i \in 1..BumpAdds : BumpsOf(i) <= 1)
    /\ [][WalkEnds => \A f \in Fds :
              (HereBefore(f) /\ ~clients[f].currently_removing)
                  => BumpsOf(clients[f].inst) = 1]_vars

(***************************************************************************)
(* SpecWrite: one client, buffers of MaxWrote + 1 bytes, a peer that takes *)
(* any number of bytes of a write or answers EAGAIN, ECONNRESET or another *)
(* error, a clock that advances and a timeout that does not expire within  *)
(* the time of a run.                                                      *)
(***************************************************************************)
WriteCfg == [DefaultCfg EXCEPT !.timeout = MaxTime]

WriteEnv ==
    [DefaultEnv EXCEPT !.fds = {1}, !.adds = 1, !.renders = WriteRenders,
                       !.sizes = {MaxWrote + 1}, !.outcomes = WriteOutcomes,
                       !.observe = {"wire", "stats"}]

InitWrite == InitWith(WriteCfg, WriteEnv)

NextWrite ==
    \/ HostAdd
    \/ Render
    \/ ProdWalk
    \/ Wait
    \/ IOLock
    \/ Service
    \/ WriteSome
    \/ Unlink
    \/ Finish
    \/ Tick

SpecWrite == InitWrite /\ [][NextWrite]_vars

\* this step is an iteration of the write handler's loop for f
WriteIteration(f) ==
    /\ th["io"].pc = "wr"
    /\ th["io"].wfd = f
    /\ th' # th \/ clients' # clients

\* What an iteration that calls write() for client c of f, whose head has
\* size s and is at offset o, leaves: one of the four outcomes.
WroteAgain(f, c) ==
    /\ clients'[f].sending = c.sending
    /\ clients'[f].bufoffset = c.bufoffset
    /\ clients'[f].bytes_sent = c.bytes_sent
    /\ clients'[f].last_activity_time = c.last_activity_time
    /\ clients'[f].status = c.status
    /\ th'["io"].pc = "svc"
    /\ wire' = wire

WroteFailed(f, c) ==
    /\ clients'[f].status \in {"Closed", "Error"}
    /\ th'["io"].pc = "rm1"
    /\ th'["io"].rmfd = f
    /\ wire' = wire

WrotePart(f, c, w) ==
    /\ clients'[f].sending = c.sending
    /\ clients'[f].bufoffset = c.bufoffset + w
    /\ clients'[f].bytes_sent = c.bytes_sent + w
    /\ clients'[f].last_activity_time = th["io"].tnow
    /\ clients'[f].status = c.status
    /\ th'["io"].pc = "svc"
    /\ wire'[f] = wire[f] \o Bytes(Head(c.sending), c.bufoffset, w)

WroteAll(f, c) ==
    /\ clients'[f].sending = Tail(c.sending)
    /\ clients'[f].bufoffset = 0
    /\ clients'[f].bytes_sent = c.bytes_sent + (Head(c.sending).size - c.bufoffset)
    /\ clients'[f].status = c.status
    /\ th'["io"].pc = "wr"
    /\ wire'[f] = wire[f] \o Bytes(Head(c.sending), c.bufoffset,
                                   Head(c.sending).size - c.bufoffset)

WroteOneOf(f, c) ==
    \/ WroteAgain(f, c)
    \/ WroteFailed(f, c)
    \/ \E w \in 0..(Head(c.sending).size - c.bufoffset - 1) : WrotePart(f, c, w)
    \/ WroteAll(f, c)

\* the bytes of each buffer are on the wire in order and without a gap, and a
\* buffer begins only where the one before it ended
Contiguous(w) ==
    \A k \in 1..Len(w) :
        IF w[k][3] = 1
        THEN k = 1 \/ w[k - 1][3] = rendered[w[k - 1][2]].size
        ELSE k > 1 /\ w[k - 1] = <<w[k][1], w[k][2], w[k][3] - 1>>

\* C33: an iteration of handle_write that calls write() on a head of size s at
\* offset o leaves one of: EAGAIN, nothing changed and the pass over for the
\* client; ECONNRESET or another error, status Closed or Error and the client
\* removed in the same pass; w < s - o bytes written, bufoffset = o + w and
\* the pass over; s - o bytes written, the head popped, bufoffset = 0 and the
\* loop going on.  bytes_sent grows by the bytes written, the offset stays
\* within the head, and the buffers reach the wire whole and contiguous.
C33_WriteOutcomes ==
    /\ [](\A f \in Fds :
             /\ (InTable(f) /\ clients[f].sending # <<>>) =>
                   /\ 0 <= clients[f].bufoffset
                   /\ clients[f].bufoffset <= Head(clients[f].sending).size
             /\ Contiguous(wire[f]))
    /\ [][\A f \in Fds :
             WriteIteration(f) =>
                LET ps == PullStep(bufqueue, clients[f], caps,
                                   cfg.resend_streamheader, th["io"].flushing, FALSE)
                IN ps.kind = "send" => WroteOneOf(f, ps.client)]_vars

\* The first buffer went out whole, in more than one write, and the second one
\* is on its way: its first two bytes are written, after an EAGAIN at a later
\* time than the last write.
C33_Witness ==
    /\ InTable(1)
    /\ clients[1].sending # <<>>
    /\ clients[1].bufoffset = 2
    /\ clients[1].bytes_sent = MaxWrote + 3
    /\ Len(wire[1]) = MaxWrote + 3
    /\ clients[1].last_activity_time < now

(***************************************************************************)
(* SpecDrain: one client whose peer sends data, closes or breaks; the byte *)
(* count query may fail, report no byte or some, and read() may fail,      *)
(* report the end of the stream or deliver bytes.                          *)
(***************************************************************************)
DrainEnv ==
    [DefaultEnv EXCEPT !.fds = {1}, !.adds = 1, !.renders = 1,
                       !.events = {"read", "readclose", "readerr"},
                       !.avails = 1..MaxAvail, !.nreads = -1..MaxAvail]

InitDrain == InitWith(DefaultCfg, DrainEnv)

NextDrain ==
    \/ HostAdd
    \/ Render
    \/ ProdWalk
    \/ Wait
    \/ IOLock
    \/ Service
    \/ Read
    \/ Write
    \/ Unlink
    \/ Finish

SpecDrain == InitDrain /\ [][NextDrain]_vars

\* this step is a call of read() for f by the read handler
ReadCall(f) ==
    /\ th["io"].pc = "rd"
    /\ th["io"].wfd = f
    /\ th' # th

\* the call discarded bytes: fewer are left, or none and the handler returns
\* with the client as it was
ReadDiscards(f) ==
    /\ clients'[f] = clients[f]
    /\ \/ /\ th'["io"].pc = "rd"
          /\ th'["io"].avail > 0
          /\ th'["io"].avail < th["io"].avail
       \/ th'["io"].pc \in {"svc", "wr"}

\* the removal of f began in this step with the status s
RemovedAs(f, s) ==
    /\ clients'[f].status = s
    /\ th'["io"].pc = "rm1"
    /\ th'["io"].rmfd = f

\* this step of the service pass makes a Closed or Error client of f
PassFails(f) ==
    /\ th["io"].pc = "svc"
    /\ th["io"].cur = f
    /\ clients[f].status \in {"OK", "Flushing"}
    /\ clients'[f].status \in {"Closed", "Error"}

\* C34: whatever the byte count query and each read() answer, handle_read ends
\* with all available bytes discarded and the client still serviceable, or
\* with status Closed (no byte available) or Error (query failed or negative,
\* read() failed or returned 0), and a Closed or Error client is removed in
\* the same pass.
C34_ReadOutcomes ==
    [][\A f \in Fds :
          /\ ReadCall(f) => (ReadDiscards(f) \/ RemovedAs(f, "Error"))
          /\ PassFails(f) => RemovedAs(f, clients'[f].status)]_vars

(***************************************************************************)
(* SpecGate: the stream-header gate applied on its own to a client with an *)
(* empty sending list, for every pair of recorded and current caps, with   *)
(* resend-streamheader on and off, and a keyframe or a delta buffer.       *)
(***************************************************************************)
GateInputs ==
    {[op |-> "in", recorded |-> r, cur |-> c, resend |-> s, delta |-> d] :
        r \in {NoCaps} \cup CapsSet, c \in CapsSet, s \in BOOLEAN, d \in BOOLEAN}

InitGate ==
    /\ InitState(DefaultCfg, DefaultEnv)
    /\ probe \in GateInputs

GateBuf(p) == DataBuf(1, p.delta, 1, NONE)

ApplyGate ==
    /\ probe.op = "in"
    /\ probe' = [op |-> "out", recorded |-> probe.recorded, cur |-> probe.cur,
                  resend |-> probe.resend, delta |-> probe.delta,
                  client |-> client_queue_buffer(
                               [client_init(1, DefaultKind(DefaultCfg), 1, 1)
                                  EXCEPT !.caps = probe.recorded],
                               GateBuf(probe), probe.cur, probe.resend)]
    /\ UNCHANGED <<cfg, env, run, fdopen, refs, bufqueue, rendered, streamheader,
                   previous_buffer_in_caps, caps, clients, list, hash, poll,
                   clients_cookie, now, lock, th, ninst, sig, pulled, wire, stall>>

NextGate == ApplyGate

SpecGate == InitGate /\ [][NextGate]_vars

\* the condition of the claim: no recorded caps, or the current caps differ
\* from the recorded ones and carry a streamheader field and either the
\* recorded caps carry none or resend is on and the arrays differ by value
GateOpen(p) ==
    \/ p.recorded = NoCaps
    \/ /\ p.cur # p.recorded
       /\ p.cur.sh # 0
       /\ \/ p.recorded.sh = 0
          \/ p.resend /\ p.recorded.sh # p.cur.sh

\* the stream-headers in a sending list
QueuedHeaders(l) == SelectSeq(l, IsHdr)

\* in every case the recorded caps become the current ones and the data
\* buffer is the last of the list, behind the headers
GateRest(p) ==
    /\ p.client.caps = p.cur
    /\ p.client.sending = QueuedHeaders(p.client.sending) \o <<GateBuf(p)>>

\* C35 as stated: the gate queues stream-headers exactly when the client has
\* no recorded caps, or the current caps differ from the recorded ones, carry
\* a streamheader field and either the recorded caps carry none or resend is
\* on and the arrays differ by value; the recorded caps become the current
\* ones and the data buffer comes after the headers.
C35_HeadersIffGateOpen ==
    probe.op = "out" =>
        /\ QueuedHeaders(probe.client.sending) # <<>> <=> GateOpen(probe)
        /\ GateRest(probe)

\* C35 as the code has it: the gate queues the stream-headers of the current
\* caps exactly when these carry a streamheader field and the client has no
\* recorded caps, or they differ from the recorded ones and either the
\* recorded caps carry no streamheader or resend is on and the arrays differ
\* by value; the recorded caps become the current ones and the data buffer
\* comes after the headers.
C35_HeadersIffFieldAndGateOpen ==
    probe.op = "out" =>
        /\ QueuedHeaders(probe.client.sending) =
              IF probe.cur.sh # 0 /\ GateOpen(probe)
              THEN ShArray(probe.cur.sh) ELSE <<>>
        /\ GateRest(probe)

\* The gate was applied to a client whose recorded caps carry another
\* streamheader than the current ones, with resend on, and queued the two
\* headers of the current caps and the buffer.
C35_Witness ==
    /\ probe.op = "out"
    /\ probe.recorded = [cid |-> 2, sh |-> 1]
    /\ probe.cur = [cid |-> 4, sh |-> 2]
    /\ probe.resend
    /\ probe.client.sending = ShArray(2) \o <<GateBuf(probe)>>
    /\ probe.client.caps = probe.cur

(***************************************************************************)
(* SpecAxis: find_limits applied on its own to queues of up to MaxAxisLen  *)
(* buffers of one or two bytes, stamped one time unit apart, with every    *)
(* combination of a limit set or unset on the three axes.                  *)
(***************************************************************************)
AxisQueues ==
    UNION {{[k \in 1..n |-> DataBuf(0, TRUE, z[k], n - k)] : z \in [1..n -> {1, 2}]} :
              n \in 1..MaxAxisLen}

AxisInputs ==
    {[op |-> "in", q |-> q, bytes_min |-> a, buffers_min |-> b, time_min |-> c,
      bytes_max |-> d, buffers_max |-> e, time_max |-> f] :
        q \in AxisQueues, a \in {-1, 2}, b \in {-1} \cup 0..(MaxAxisLen + 1),
        c \in {-1, 1}, d \in {-1, 3}, e \in {-1, 1, 2}, f \in {-1, 2}}

InitAxis ==
    /\ InitState(DefaultCfg, DefaultEnv)
    /\ probe \in AxisInputs

ApplyLimits ==
    /\ probe.op = "in"
    /\ probe' = [probe EXCEPT !.op = "out"]
                  @@ [lim |-> find_limits(probe.q, probe.bytes_min, probe.buffers_min,
                                          probe.time_min, probe.bytes_max,
                                          probe.buffers_max, probe.time_max)]
    /\ UNCHANGED <<cfg, env, run, fdopen, refs, bufqueue, rendered, streamheader,
                   previous_buffer_in_caps, caps, clients, list, hash, poll,
                   clients_cookie, now, lock, th, ninst, sig, pulled, wire, stall>>

NextAxis == ApplyLimits

SpecAxis == InitAxis /\ [][NextAxis]_vars

\* the indices for the byte and time limits of p with the buffers limits b, e
AxisWith(p, b, e) ==
    find_limits(p.q, p.bytes_min, b, p.time_min, p.bytes_max, e, p.time_max)

ShortInputs ==
    {[op |-> "in", q |-> q, min |-> a, max |-> b] :
        q \in BurstQueues, a \in BurstValues, b \in {-1} \cup BurstValues}

InitShort ==
    /\ InitState(DefaultCfg, DefaultEnv)
    /\ probe \in {i \in ShortInputs : ~wrong_limits(BurstKind(i))}

NextShort == ApplyBurst

SpecShort == InitShort /\ [][NextShort]_vars

\* C37: for sync method Burst, when the queue does not hold enough data to
\* satisfy burst_min, the client starts at the oldest queued buffer, index
\* len - 1: it is sent everything that is in the queue.
C37_ShortQueueSentWhole ==
    (probe.op = "out" /\ Reaching(probe.q, probe.min) = {})
        => probe.result = Len(probe.q) - 1

(***************************************************************************)
(* FairStop: one client, a host that adds and removes while the element    *)
(* runs, a producer, a stop at any time.  Each thread goes on with what it *)
(* began, and the stop goes through its stages.                            *)
(***************************************************************************)
StopEnv == [DefaultEnv EXCEPT !.fds = {1}, !.adds = StopAdds, !.renders = StopRenders]

InitStop == InitWith(MainCfg, StopEnv)

\* the calls the host and the upstream element make while the element runs
AddRunning == run.stop = "no" /\ HostAdd
RemoveRunning == run.stop = "no" /\ HostRemove
RenderRunning == run.stop = "no" /\ Render

NextStop ==
    \/ AddRunning
    \/ RemoveRunning
    \/ RenderRunning
    \/ ProdWalk
    \/ Wait
    \/ PollFlushed
    \/ IOLock
    \/ Service
    \/ Write
    \/ Unlink
    \/ Finish
    \/ StopBegin
    \/ StopPre
    \/ StopPost

IOStopStep == IOStep \/ PollFlushed
StopStep == StopPre \/ StopPost

FairStop ==
    /\ InitStop
    /\ [][NextStop]_vars
    /\ WF_vars(ProdStep)
    /\ WF_vars(IOStopStep)
    /\ WF_vars(HostStep)
    /\ WF_vars(StopStep)

\* stop_pre has run: the poll set is flushing and running is false
Stopping == run.flushing /\ ~run.running

\* C38: once stop_pre has set the poll set to flushing and running is false,
\* the I/O thread leaves a poll wait it is in or enters without servicing a
\* client, and it ends after finitely many steps; stop_post then leaves the
\* hash empty; the steps of the stop emit no client notification.
C38_StopEndsThread ==
    /\ [][(Stopping /\ th["io"].pc = "wait") => th'["io"].pc \in {"wait", "exited"}]_vars
    /\ (run.stop = "pre") ~> (th["io"].pc = "exited")
    /\ [](run.stop = "pre" => Stopping)
    /\ [](run.stop = "post" => hash = {})
    /\ [][(run' # run \/ (th["io"].pc # "exited" /\ th'["io"].pc = "exited"))
             => sig' = sig]_vars

\* The element was stopped with a client registered that was being served:
\* the thread has ended, the hash is empty, and the client got no
\* notification but client-added.
C38_Witness ==
    /\ run.stop = "post"
    /\ th["io"].pc = "exited"
    /\ hash = {}
    /\ list = <<1>>
    /\ Len(rendered) = 1
    /\ sig[1].added = 1 /\ sig[1].removed = 0 /\ sig[1].fdrem = 0

(***************************************************************************)
(* SpecOnce: one descriptor that the host adds, removes, flushes and adds  *)
(* again, a peer that may close or stall, the hard limit at one buffer:    *)
(* the host, the producer and the I/O thread may each want to remove the   *)
(* same client.                                                            *)
(***************************************************************************)
OnceEnv ==
    [DefaultEnv EXCEPT !.fds = {1}, !.adds = OnceAdds, !.renders = OnceRenders,
                       !.events = {"closed"}, !.stall = TRUE]

InitOnce == InitWith(MainCfg, OnceEnv)

NextOnce ==
    \/ HostAdd
    \/ HostRemove
    \/ HostRemoveFlush
    \/ Render
    \/ ProdWalk
    \/ Wait
    \/ IOLock
    \/ Service
    \/ Write
    \/ Unlink
    \/ Finish

SpecOnce == InitOnce /\ [][NextOnce]_vars

\* the clients that were registered, and those of them that were unlinked
Registered39 == {i \in DOMAIN sig : sig[i].added = 1}
Unlinked39 == {i \in Registered39 : sig[i].removed >= 1}

\* thread t unlinks and frees the client it removes with this step
Unlinks(t) == th[t].pc = "rm1" /\ th'[t].pc = "rm2"

\* thread t completes a removal with this step
Completes(t) == th[t].pc = "rm2" /\ th'[t].pc # "rm2"

\* C39: when several threads want to remove the same registered client, the
\* removal runs to completion once: client-removed and client-fd-removed are
\* emitted once each, client-removed first, the client is unlinked from the
\* hash and the list and freed once, and clients_cookie is bumped once.
C39_RemovedExactlyOnce ==
    /\ [](\A i \in Registered39 :
             sig[i].removed <= 1 /\ sig[i].fdrem <= sig[i].removed)
    /\ [](\A t, u \in Threads :
             (t # u /\ th[t].rminst # 0) => th[u].rminst # th[t].rminst)
    /\ [](clients_cookie = Cardinality(Registered39) + Cardinality(Unlinked39))
    /\ [][\A t \in Threads :
             /\ Unlinks(t) =>
                   /\ th[t].rmfd \in hash /\ InList(list, th[t].rmfd)
                   /\ clients[th[t].rmfd].inst = th[t].rminst
                   /\ th[t].rmfd \notin hash' /\ ~InList(list', th[t].rmfd)
                   /\ clients_cookie' = clients_cookie + 1
                   /\ sig'[th[t].rminst].removed = 1
                   /\ sig'[th[t].rminst].fdrem = 0
             /\ Completes(t) =>
                   /\ sig'[th[t].rminst].removed = 1
                   /\ sig'[th[t].rminst].fdrem = 1]_vars

\* The host is removing the client, between its two notifications or before
\* them, and the I/O thread, holding the lock, is at the same client in its
\* pass and will ask for its removal too.
C39_Witness ==
    /\ th["host"].pc = "rm1"
    /\ th["host"].rmfd = 1
    /\ lock = "io"
    /\ th["io"].pc = "svc"
    /\ th["io"].cur = 1
    /\ th["io"].cookie = clients_cookie
    /\ clients[1].currently_removing

(***************************************************************************)
(* FairWake: two descriptors, the hard limit at one buffer, sync method    *)
(* Latest, peers that accept every write; every thread goes on with what   *)
(* it began.                                                               *)
(***************************************************************************)
WakeEnv ==
    [DefaultEnv EXCEPT !.adds = WakeAdds, !.renders = WakeRenders,
                       !.observe = {"pulled"}]

InitWake == InitWith(MainCfg, WakeEnv)

NextWake ==
    \/ HostAdd
    \/ Render
    \/ ProdWalk
    \/ Wait
    \/ IOLock
    \/ Service
    \/ Write
    \/ Unlink
    \/ Finish

FairWake ==
    /\ InitWake
    /\ [][NextWake]_vars
    /\ WF_vars(ProdStep)
    /\ WF_vars(IOStep)

\* the client of f has something to write
HasWork(f) ==
    /\ clients[f].status \in {"OK", "Flushing"}
    /\ ~clients[f].currently_removing
    /\ clients[f].bufpos >= 0 \/ clients[f].sending # <<>>

\* the walk of a render leaves the client of f, which stays registered, at
\* position 0 or finds it a new connection
WalkReaches(f) ==
    /\ th["prod"].pc = "walk"
    /\ th["prod"].cur = f
    /\ th["prod"].cookie = clients_cookie
    /\ th'["prod"] # th["prod"]
    /\ th'["prod"].pc = "walk"
    /\ ~clients'[f].currently_removing
    /\ clients'[f].bufpos = 0 \/ clients'[f].new_connection

\* the client of f is registered with status OK since before buffer k was
\* rendered
Entitled(f, k) ==
    /\ InTable(f)
    /\ clients[f].status = "OK"
    /\ ~clients[f].currently_removing
    /\ k <= Len(rendered)
    /\ sig[clients[f].inst].at < k

\* buffer k was taken from the queue for the client of f
Served(f, k) == \E j \in DOMAIN pulled[f] : pulled[f][j] = k

\* C40: no wake-up is lost.  Whenever the clients lock is free a client with
\* status OK or Flushing that is not being removed and has a position or a
\* non-empty sending list has its write-interest on; a render that moves a
\* client to position 0 or reaches a new connection turns its write-interest
\* on; and under fairness a client whose peer is writable is eventually
\* served every buffer rendered since it was added.
C40_NoLostWakeup ==
    /\ [](lock = "free" => \A f \in hash : HasWork(f) => WriteInterest(f))
    /\ [][\A f \in Fds : WalkReaches(f) => (poll'[f].in /\ poll'[f].w)]_vars
    /\ \A f \in Fds, k \in 1..WakeRenders :
          (Entitled(f, k) /\ ~Served(f, k)) ~> (~Entitled(f, k) \/ Served(f, k))

====
